---- MODULE Spec2Model ----
(***************************************************************************)
(* Symbolic memory (src/src/sym.rs) and microcode encoder (src/src/ir.rs)  *)
(* of symslice, as state machines.                                          *)
(*                                                                          *)
(* SpecMem drives two SymMemory objects with one sequence of reads and      *)
(* writes; the two objects share the strategy and differ in the solver      *)
(* they hold.  SpecEnc drives one MicroEncoder with encode and finish.      *)
(* SpecStep drives one SymState with step, SpecTrack with track, SpecSys   *)
(* with the steps and calls around a syscall.  SpecRun drives encoder and   *)
(* state together: an instruction is tracked, encoded and its microcode     *)
(* stepped.  SpecReg drives the registers of one SymState with set_reg and *)
(* get_reg.  SpecPair drives a ConditionalTrees and a PerfectMatches        *)
(* memory with the same reads and writes at concrete addresses.             *)
(***************************************************************************)
EXTENDS Integers, Sequences, FiniteSets, TLC

VARIABLES
    mem,        \* mem[i]: the MemoryData, strategy and solver of memory i
    last,       \* the most recent read or write and what it returned
    worder,     \* addresses in the order of their latest write (oldest first)
    ops,        \* MicroEncoder.ops
    temps,      \* MicroEncoder.temps
    last_comparison, \* MicroEncoder.last_comparison
    elast,      \* the most recent encoder call and the encoder state before it
    sym,        \* the SymState
    steps,      \* the calls of step remembered: address, operation, event, outcome
    tracked     \* the calls of track remembered: mnemonic and address

memvars == <<mem, last, worder>>
encvars == <<ops, temps, last_comparison, elast>>
stepvars == <<sym, steps, tracked>>
vars == <<mem, last, worder, ops, temps, last_comparison, elast, sym, steps, tracked>>

----------------------------------------------------------------------------
(* Bounds.                                                                  *)

\* Cap of the u32 epoch counter: no appending write at or above it.
MaxEpoch == 6
\* Cap of the default-symbol counter: no symbol generation at or above it.
MaxSymbols == 5
\* encode is called only while fewer operations than this are buffered.
MaxOps == 3
\* encode is called only while the temporary counter is below this.
MaxTemps == 4
\* step is called at most this many times on one state.
MaxSteps == 4
\* track is called at most this many times on one state.
MaxTracks == 4
\* A syscall is stepped only while fewer symbols than this were issued.
MaxIssued == 2

----------------------------------------------------------------------------
(* Data types and symbolic expressions (crate::math, outside src/).         *)

N8 == 8
N16 == 16
N32 == 32
N64 == 64

\* Every expression is a record of one shape, so that any two compare.
Node(tag, dt, n, ns, kids) ==
    [tag |-> tag, dt |-> dt, n |-> n, ns |-> ns, kids |-> kids]

\* SymExpr::Int(Integer(dt, v))
IntExpr(dt, v) == Node("Int", dt, v, "", <<>>)
\* SymExpr::Sym(Symbol(dt, ns, index))
SymE(dt, ns, index) == Node("Sym", dt, index, ns, <<>>)
\* SymExpr::from_ptr(addr): a pointer-width constant
from_ptr(addr) == IntExpr(N64, addr)
\* a.add(b)
AddExpr(a, b) == Node("Add", a.dt, 0, "", <<a, b>>)
\* expr.data_type()
data_type(e) == e.dt
\* Integer::cast on the value v of width dt: truncated to a smaller width,
\* sign- or zero-extended to a bigger one.  Constants of the model are below
\* 2^7, so the extension of a set sign bit to n32 or n64 does not occur.
int_cast(dt, v, new, signed) ==
    IF new <= dt
    THEN IF new < N32 THEN v % (2 ^ new) ELSE v
    ELSE IF signed /\ new < N32 /\ v >= 2 ^ (dt - 1)
         THEN v + (2 ^ new) - (2 ^ dt)
         ELSE v
\* expr.cast(new, signed): a constant is cast as a constant.
cast(e, new, signed) ==
    IF e.tag = "Int"
    THEN Node("Int", new, int_cast(e.dt, e.n, new, signed), "", <<>>)
    ELSE Node("Cast", new, IF signed THEN 1 ELSE 0, "", <<e>>)
\* a.sub(b), a.mul(b), a.bitand(b), a.bitor(b), a.bitnot()
SubExpr(a, b) == Node("Sub", a.dt, 0, "", <<a, b>>)
MulExpr(a, b) == Node("Mul", a.dt, 0, "", <<a, b>>)
BitAndExpr(a, b) == Node("BitAnd", a.dt, 0, "", <<a, b>>)
BitOrExpr(a, b) == Node("BitOr", a.dt, 0, "", <<a, b>>)
BitNotExpr(a) == Node("BitNot", a.dt, 0, "", <<a>>)
\* A condition over the result of an operation: equal to, greater or less than zero.
CondOver(kind, e) == Node(kind, 0, 0, "", <<e>>)
\* condition.as_expr(data_type): 0 or 1 of that width
as_expr(c, dt) == Node("AsExpr", dt, 0, "", <<c>>)
\* SymCondition::TRUE
CondTRUE == Node("Bool", 0, 1, "", <<>>)
\* a.equal(b)
equal(a, b) == Node("Equal", 0, 0, "", <<a, b>>)
\* condition.if_then_else(a, b)
if_then_else(c, a, b) == Node("Ite", a.dt, 0, "", <<c, a, b>>)
\* No expression: the result slot of a write.
NoExpr == Node("None", 0, 0, "", <<>>)

----------------------------------------------------------------------------
(* Inputs.                                                                  *)

\* Addresses handed to read_direct and write_direct.
DirectAddrs == {0}
\* Two symbolic addresses of the same value with different syntax.
SymA == AddExpr(SymE(N64, "reg", 0), SymE(N64, "reg", 1))
SymB == AddExpr(SymE(N64, "reg", 1), SymE(N64, "reg", 0))
\* Address expressions handed to read_expr and write_expr.
ExprAddrs == {SymA, SymB}
\* Values written.
Values == {IntExpr(N8, 1), IntExpr(N64, 7)}
\* Widths read.
ReadTypes == {N8, N64}

----------------------------------------------------------------------------
(* The solver (crate::math::SharedSolver, outside src/).                    *)

Solvers == {"exact", "lazy"}

IsConcrete(e) == e.tag = "Int"
\* Two expressions that denote the same value on every assignment.
SameValue(a, b) == a = b \/ {a, b} = {SymA, SymB}

\* solver.check_equal_sat(a, b): "exact" refutes the equality of two distinct
\* constants, "lazy" refutes nothing.
check_equal_sat(solver, a, b) ==
    IF solver = "exact"
    THEN ~(IsConcrete(a) /\ IsConcrete(b) /\ a # b)
    ELSE TRUE

\* solver.simplify_condition(a == b): "exact" folds a valid equality to TRUE,
\* "lazy" returns the condition as it is.
simplify_condition(solver, c) ==
    IF solver = "exact" /\ c.tag = "Equal" /\ SameValue(c.kids[1], c.kids[2])
    THEN CondTRUE
    ELSE c

----------------------------------------------------------------------------
(* SymMemory.                                                               *)

\* MemoryEntry { addr, value, epoch }
MemoryEntry(addr, value, epoch) == [addr |-> addr, value |-> value, epoch |-> epoch]

\* SymMemory::new(name, strategy, solver)
SymMemoryNew(name, strategy, solver) ==
    [name |-> name, strategy |-> strategy, solver |-> solver,
     entries |-> <<>>, symbols |-> 0, epoch |-> 1]

\* MemoryData::get_default_value
get_default_value(m, dt) == SymE(dt, m.name, m.symbols)

\* generate_default_symbol that counts the symbol and forgets the entry.
generate_default_symbol_unmemoized(m, addr, dt) ==
    [m EXCEPT !.symbols = @ + 1]

\* generate_default_symbol that stamps the entry with the current epoch.
generate_default_symbol_stamped(m, addr, dt) ==
    [m EXCEPT !.entries = Append(@, MemoryEntry(addr, get_default_value(m, dt), m.epoch)),
              !.symbols = @ + 1]

\* MemoryData::generate_default_symbol: the memory after it (the value it
\* returns is get_default_value of the memory before).
generate_default_symbol(m, addr, dt) ==
    [m EXCEPT !.entries = Append(@, MemoryEntry(addr, get_default_value(m, dt), 0)),
              !.symbols = @ + 1]

\* The candidates of a ConditionalTrees read, in entry order: the entries
\* with the same address (condition TRUE) and those the solver cannot tell
\* apart from it (the simplified equality).
RECURSIVE condition_map(_, _, _)
condition_map(m, addr, k) ==
    IF k > Len(m.entries) THEN <<>>
    ELSE LET entry == m.entries[k]
             rest == condition_map(m, addr, k + 1)
         IN IF entry.addr = addr
            THEN <<[cond |-> CondTRUE, entry |-> entry]>> \o rest
            ELSE IF check_equal_sat(m.solver, entry.addr, addr)
                 THEN <<[cond |-> simplify_condition(m.solver, equal(entry.addr, addr)),
                         entry |-> entry]>> \o rest
                 ELSE rest

\* x put into a sequence sorted by epoch descending, after every element whose
\* epoch is not smaller (the sort is stable).
RECURSIVE InsertByEpoch(_, _)
InsertByEpoch(x, sorted) ==
    IF sorted = <<>> THEN <<x>>
    ELSE IF Head(sorted).entry.epoch >= x.entry.epoch
         THEN <<Head(sorted)>> \o InsertByEpoch(x, Tail(sorted))
         ELSE <<x>> \o sorted

\* condition_map.sort_by_key(|(_, entry)| Reverse(entry.epoch))
RECURSIVE sort_by_epoch_rev(_)
sort_by_epoch_rev(cm) ==
    IF cm = <<>> THEN <<>>
    ELSE InsertByEpoch(cm[Len(cm)], sort_by_epoch_rev(SubSeq(cm, 1, Len(cm) - 1)))

\* The number of candidates before the first one whose condition is TRUE.
RECURSIVE scan_end(_)
scan_end(cm) ==
    IF cm = <<>> \/ Head(cm).cond = CondTRUE THEN 0
    ELSE 1 + scan_end(Tail(cm))

\* The if-then-else tree over the candidates, built bottom-up.
RECURSIVE build_tree(_, _)
build_tree(cm, leaf) ==
    IF cm = <<>> THEN leaf
    ELSE if_then_else(Head(cm).cond, Head(cm).entry.value, build_tree(Tail(cm), leaf))

\* The ConditionalTrees branch that does not stop at a perfect match.
read_conditional_to_default(m, addr, dt) ==
    LET sorted == sort_by_epoch_rev(condition_map(m, addr, 1))
    IN [expr |-> build_tree(sorted, get_default_value(m, dt)),
        mem |-> generate_default_symbol(m, addr, dt)]

\* read_expr, the ConditionalTrees branch: the tree and the memory after it.
read_conditional(m, addr, dt) ==
    LET sorted == sort_by_epoch_rev(condition_map(m, addr, 1))
        end == scan_end(sorted)
        used_default_symbol == end = Len(sorted)
        leaf == IF used_default_symbol THEN get_default_value(m, dt)
                ELSE sorted[end + 1].entry.value
        tree == build_tree(SubSeq(sorted, 1, end), leaf)
    IN [expr |-> tree,
        mem |-> IF used_default_symbol THEN generate_default_symbol(m, addr, dt) ELSE m]

\* The newest perfect match among the entries from k on: 0, or the index of
\* the first entry with this address whose epoch no later one exceeds.
RECURSIVE newest_match(_, _, _, _)
newest_match(m, addr, k, best) ==
    IF k > Len(m.entries) THEN best
    ELSE LET entry == m.entries[k]
             newer == best = 0 \/ m.entries[best].epoch < entry.epoch
         IN newest_match(m, addr, k + 1,
                         IF entry.addr = addr /\ newer THEN k ELSE best)

\* read_expr, the PerfectMatches branch.
read_perfect(m, addr, dt) ==
    LET best == newest_match(m, addr, 1, 0)
    IN IF best # 0
       THEN [expr |-> m.entries[best].value, mem |-> m]
       ELSE [expr |-> get_default_value(m, dt),
             mem |-> generate_default_symbol(m, addr, dt)]

\* read_expr without its closing cast.
coerce_never(expr, dt) == expr

\* The unsigned cast that closes read_expr.
coerce(expr, dt) == IF data_type(expr) = dt THEN expr ELSE cast(expr, dt, FALSE)

\* read_expr that builds the conditional tree under either strategy.
read_expr_always_conditional(m, addr, dt) ==
    LET r == read_conditional(m, addr, dt)
    IN [expr |-> coerce(r.expr, dt), mem |-> r.mem]

\* SymMemory::read_expr: the expression returned and the memory after it.
read_expr(m, addr, dt) ==
    LET r == IF m.strategy = "ConditionalTrees"
             THEN read_conditional(m, addr, dt)
             ELSE read_perfect(m, addr, dt)
    IN [expr |-> coerce(r.expr, dt), mem |-> r.mem]

\* SymMemory::read_direct
read_direct(m, addr, dt) == read_expr(m, from_ptr(addr), dt)

\* The index of the first entry with this address, 0 when there is none.
first_match(m, addr) ==
    IF \E k \in 1..Len(m.entries) : m.entries[k].addr = addr
    THEN CHOOSE k \in 1..Len(m.entries) :
            /\ m.entries[k].addr = addr
            /\ \A j \in 1..(k - 1) : m.entries[j].addr # addr
    ELSE 0

\* write_expr that appends without looking for an entry to overwrite.
write_expr_appending(m, addr, value) ==
    [m EXCEPT !.epoch = @ + 1, !.entries = Append(@, MemoryEntry(addr, value, m.epoch))]

\* write_expr that bumps the epoch counter on an overwrite as well.
write_expr_bumping(m, addr, value) ==
    LET new_entry == MemoryEntry(addr, value, m.epoch)
        k == first_match(m, addr)
    IN IF k # 0
       THEN [m EXCEPT !.epoch = @ + 1, !.entries[k] = new_entry]
       ELSE [m EXCEPT !.epoch = @ + 1, !.entries = Append(@, new_entry)]

\* SymMemory::write_expr: the memory after it.
write_expr(m, addr, value) ==
    LET new_entry == MemoryEntry(addr, value, m.epoch)
        k == first_match(m, addr)
    IN IF k # 0
       THEN [m EXCEPT !.entries[k] = new_entry]
       ELSE [m EXCEPT !.epoch = @ + 1, !.entries = Append(@, new_entry)]

\* SymMemory::write_direct
write_direct(m, addr, value) == write_expr(m, from_ptr(addr), value)

----------------------------------------------------------------------------
(* Microcode: temporaries, locations, conditions, micro operations.         *)

\* Temporary(data_type, index)
Temporary(dt, idx) == [dt |-> dt, idx |-> idx]
NoTemp == Temporary(0, 0)

\* Location::Temp, Location::Direct, Location::Indirect
LocRec(kind, dt, space, addr, temp) ==
    [kind |-> kind, dt |-> dt, space |-> space, addr |-> addr, temp |-> temp]
LTemp(temp) == LocRec("Temp", temp.dt, 0, 0, temp)
Direct(dt, space, addr) == LocRec("Direct", dt, space, addr, NoTemp)
Indirect(dt, space, temp) == LocRec("Indirect", dt, space, 0, temp)
NoLoc == LocRec("None", 0, 0, 0, NoTemp)

\* Location::data_type
loc_data_type(loc) == loc.dt

\* DataType::bytes
bytes(dt) == dt \div 8

\* Integer(data_type, value)
Integer(dt, v) == [dt |-> dt, v |-> v]

\* Comparison::{Add, Sub, Mul, And}(a, b); "None" is Option::None.
Comparison(kind, a, b) == [kind |-> kind, a |-> a, b |-> b]
NoComparison == Comparison("None", NoTemp, NoTemp)

\* Condition::{True, Equal, Greater, Less}
Condition(kind, cmp) == [kind |-> kind, cmp |-> cmp]
CondTrue == Condition("True", NoComparison)

\* MicroOperation, every variant in one record shape.
MicroOp(op, dest, src, t, a, b, constant, new, signed, condition, relative) ==
    [op |-> op, dest |-> dest, src |-> src, t |-> t, a |-> a, b |-> b,
     constant |-> constant, new |-> new, signed |-> signed,
     condition |-> condition, relative |-> relative]
OpMov(dest, src) ==
    MicroOp("Mov", dest, src, NoTemp, NoTemp, NoTemp, Integer(0, 0), 0, FALSE, CondTrue, FALSE)
OpConst(dest, constant) ==
    MicroOp("Const", dest, NoLoc, NoTemp, NoTemp, NoTemp, constant, 0, FALSE, CondTrue, FALSE)
OpCast(target, new, signed) ==
    MicroOp("Cast", NoLoc, NoLoc, target, NoTemp, NoTemp, Integer(0, 0), new, signed, CondTrue, FALSE)
\* Add { sum, a, b }, Sub { diff, a, b }, Mul { prod, a, b }
OpBin(op, target, a, b) ==
    MicroOp(op, NoLoc, NoLoc, target, a, b, Integer(0, 0), 0, FALSE, CondTrue, FALSE)
OpSet(target, condition) ==
    MicroOp("Set", NoLoc, NoLoc, target, NoTemp, NoTemp, Integer(0, 0), 0, FALSE, condition, FALSE)
OpJump(target, condition, relative) ==
    MicroOp("Jump", NoLoc, NoLoc, target, NoTemp, NoTemp, Integer(0, 0), 0, FALSE, condition, relative)
OpSyscall ==
    MicroOp("Syscall", NoLoc, NoLoc, NoTemp, NoTemp, NoTemp, Integer(0, 0), 0, FALSE, CondTrue, FALSE)

----------------------------------------------------------------------------
(* Registers, operands and instructions (crate::amd64, outside src/).       *)

\* impl MemoryMapped for Register: address()
address(name) ==
    CASE name \in {"AL", "AX", "EAX", "RAX"} -> 0
      [] name \in {"CL", "CX", "ECX", "RCX"} -> 8
      [] name \in {"DL", "DX", "EDX", "RDX"} -> 16
      [] name \in {"BL", "BX", "EBX", "RBX"} -> 24
      [] name \in {"AH", "SP", "ESP", "RSP"} -> 32
      [] name \in {"CH", "BP", "EBP", "RBP"} -> 40
      [] name \in {"DH", "SI", "ESI", "RSI"} -> 48
      [] name \in {"BH", "DI", "EDI", "RDI"} -> 56
      [] name = "R8" -> 64
      [] name = "R9" -> 72
      [] name = "R10" -> 80
      [] name = "R11" -> 88
      [] name = "R12" -> 96
      [] name = "R13" -> 104
      [] name = "R14" -> 112
      [] name = "R15" -> 120
      [] name \in {"IP", "EIP", "RIP"} -> 128

\* Register::data_type
reg_data_type(name) ==
    CASE name \in {"AL", "CL", "DL", "BL", "AH", "CH", "DH", "BH"} -> N8
      [] name \in {"AX", "CX", "DX", "BX", "SP", "BP", "SI", "DI", "IP"} -> N16
      [] name \in {"EAX", "ECX", "EDX", "EBX", "ESP", "EBP", "ESI", "EDI", "EIP"} -> N32
      [] OTHER -> N64

\* Operand::{Direct, Indirect, IndirectDisplaced, Immediate, Offset}
Operand(kind, dt, reg, val) == [kind |-> kind, dt |-> dt, reg |-> reg, val |-> val]
ODirect(reg) == Operand("Direct", reg_data_type(reg), reg, 0)
OIndirect(dt, reg) == Operand("Indirect", dt, reg, 0)
OIndirectDisplaced(dt, reg, displace) == Operand("IndirectDisplaced", dt, reg, displace)
OImmediate(dt, immediate) == Operand("Immediate", dt, "", immediate)
OOffset(offset) == Operand("Offset", N64, "", offset)

\* Instruction { mnemoic, operands }
Instruction(mnemoic, operands) == [mnemoic |-> mnemoic, operands |-> operands]

----------------------------------------------------------------------------
(* MicroEncoder.  An encoder is [ops, temps, last_comparison]; a helper      *)
(* returns the encoder after it together with what the Rust returns.        *)

\* MicroEncoder::new
MicroEncoderNew == [ops |-> <<>>, temps |-> 0, last_comparison |-> NoComparison]

push(e, op) == [e EXCEPT !.ops = Append(@, op)]

\* encode_load_reg
encode_load_reg(e, reg) ==
    LET temp == Temporary(reg_data_type(reg), e.temps)
        src == Direct(reg_data_type(reg), 1, address(reg))
    IN [e |-> [push(e, OpMov(LTemp(temp), src)) EXCEPT !.temps = @ + 1],
        temp |-> temp]

\* encode_load_constant with the temporary numbered by the length of the buffer.
encode_load_constant_by_position(e, dt, constant) ==
    LET temp == Temporary(dt, Len(e.ops))
    IN [e |-> [push(e, OpConst(LTemp(temp), Integer(dt, constant))) EXCEPT !.temps = @ + 1],
        temp |-> temp]

\* encode_load_constant
encode_load_constant(e, dt, constant) ==
    LET temp == Temporary(dt, e.temps)
    IN [e |-> [push(e, OpConst(LTemp(temp), Integer(dt, constant))) EXCEPT !.temps = @ + 1],
        temp |-> temp]

\* encode_get_location, Operand::Indirect, after the register is loaded.
get_location_indirect(r, dt) == [e |-> r.e, loc |-> Indirect(dt, 0, r.temp)]

\* encode_get_location, Operand::IndirectDisplaced, after the register is loaded.
get_location_displaced(r, dt, displace) ==
    LET constant == Temporary(N64, r.e.temps)
        e1 == push(r.e, OpConst(LTemp(constant), Integer(N64, displace)))
        e2 == push(e1, OpBin("Add", Temporary(N64, r.e.temps + 1), r.temp, constant))
    IN [e |-> [e2 EXCEPT !.temps = @ + 2],
        loc |-> Indirect(dt, 0, Temporary(N64, r.e.temps + 1))]

\* encode_get_location, Operand::Immediate and Operand::Offset: Temp(constant).
get_location_temp(r) == [e |-> r.e, loc |-> LTemp(r.temp)]

\* encode_get_location
encode_get_location(e, operand) ==
    CASE operand.kind = "Direct" ->
           [e |-> e, loc |-> Direct(reg_data_type(operand.reg), 1, address(operand.reg))]
      [] operand.kind = "Indirect" ->
           get_location_indirect(encode_load_reg(e, operand.reg), operand.dt)
      [] operand.kind = "IndirectDisplaced" ->
           get_location_displaced(encode_load_reg(e, operand.reg), operand.dt, operand.val)
      [] operand.kind = "Immediate" ->
           get_location_temp(encode_load_constant(e, operand.dt, operand.val))
      [] operand.kind = "Offset" ->
           get_location_temp(encode_load_constant(e, N64, operand.val))

\* encode_load_operand, after the location g is prepared.
load_operand_at(g) ==
    IF g.loc.kind = "Temp"
    THEN [e |-> g.e, loc |-> g.loc, temp |-> g.loc.temp]
    ELSE [e |-> [push(g.e, OpMov(LTemp(Temporary(loc_data_type(g.loc), g.e.temps)), g.loc))
                 EXCEPT !.temps = @ + 1],
          loc |-> g.loc,
          temp |-> Temporary(loc_data_type(g.loc), g.e.temps)]

\* encode_load_operand
encode_load_operand(e, operand) == load_operand_at(encode_get_location(e, operand))

\* encode_move without the check of the widths.
encode_move_unchecked(e, dest, src) ==
    [e |-> push(e, OpMov(dest, src)), st |-> "ok"]

\* encode_move: Err leaves the encoder as it was handed in.
encode_move(e, dest, src) ==
    IF loc_data_type(src) # loc_data_type(dest)
    THEN [e |-> e, st |-> "err"]
    ELSE [e |-> push(e, OpMov(dest, src)), st |-> "ok"]

\* encode_move(..).unwrap()
unwrap(r) == [e |-> r.e, st |-> IF r.st = "ok" THEN "ok" ELSE "panic"]

\* encode_load_both, after both operands l and r are loaded.
load_both_cast(l, r) ==
    IF l.temp.dt # r.temp.dt
    THEN [e |-> push(r.e, OpCast(r.temp, l.temp.dt, TRUE)),
          dest |-> l.loc, left |-> l.temp,
          src |-> r.loc, right |-> Temporary(l.temp.dt, r.temp.idx)]
    ELSE [e |-> r.e, dest |-> l.loc, left |-> l.temp, src |-> r.loc, right |-> r.temp]

\* encode_load_both, after the first operand l is loaded.
load_both_right(l, operand) == load_both_cast(l, encode_load_operand(l.e, operand))

\* encode_load_both
encode_load_both(e, inst) ==
    load_both_right(encode_load_operand(e, inst.operands[1]), inst.operands[2])

\* encode_binop, after both operands b are loaded.
binop_emit(b, op) ==
    LET target == Temporary(b.left.dt, b.e.temps)
        e1 == push([b.e EXCEPT !.temps = @ + 1], OpBin(op, target, b.left, b.right))
    IN [e |-> push(e1, OpMov(b.dest, LTemp(target))), left |-> b.left, right |-> b.right]

\* encode_binop
encode_binop(e, inst, op) == binop_emit(encode_load_both(e, inst), op)

\* encode_jump with a 32-bit target temporary.
encode_jump_narrow(e, operand, condition) ==
    IF operand.kind = "Offset"
    THEN LET target == Temporary(N32, e.temps)
             e1 == push(e, OpConst(LTemp(target), Integer(N32, operand.val)))
         IN [e |-> [push(e1, OpJump(target, condition, TRUE)) EXCEPT !.temps = @ + 1],
             st |-> "ok"]
    ELSE [e |-> e, st |-> "panic"]

\* encode_jump
encode_jump(e, operand, condition) ==
    IF operand.kind = "Offset"
    THEN LET target == Temporary(N64, e.temps)
             e1 == push(e, OpConst(LTemp(target), Integer(N64, operand.val)))
         IN [e |-> [push(e1, OpJump(target, condition, TRUE)) EXCEPT !.temps = @ + 1],
             st |-> "ok"]
    ELSE [e |-> e, st |-> "panic"]

\* encode_set, after the location g is prepared.
set_emit(g, condition) ==
    LET temp == Temporary(loc_data_type(g.loc), g.e.temps)
    IN unwrap(encode_move(push([g.e EXCEPT !.temps = @ + 1], OpSet(temp, condition)),
                          g.loc, LTemp(temp)))

\* encode_set
encode_set(e, operand, condition) == set_emit(encode_get_location(e, operand), condition)

\* encode_push, the copy of the stack pointer back after the store m.
push_copy_back(m, l) ==
    IF m.st # "ok" THEN m ELSE unwrap(encode_move(m.e, l.loc, LTemp(l.temp)))

\* encode_push, after the stack pointer l is loaded.
push_store(l, src) ==
    LET dt == loc_data_type(src)
        offset == Temporary(N64, l.e.temps)
        e1 == push(l.e, OpConst(LTemp(offset), Integer(N64, bytes(dt))))
        e2 == [push(e1, OpBin("Sub", l.temp, l.temp, offset)) EXCEPT !.temps = @ + 1]
    IN push_copy_back(unwrap(encode_move(e2, Indirect(dt, 0, l.temp), src)), l)

\* encode_push
encode_push(e, src) == push_store(encode_load_operand(e, ODirect("RSP")), src)

\* encode_pop, the stack pointer adjusted and copied back after the load m.
pop_adjust(m, l, dt) ==
    IF m.st # "ok" THEN m
    ELSE LET offset == Temporary(N64, m.e.temps)
             e1 == push(m.e, OpConst(LTemp(offset), Integer(N64, bytes(dt))))
             e2 == [push(e1, OpBin("Add", l.temp, l.temp, offset)) EXCEPT !.temps = @ + 1]
         IN unwrap(encode_move(e2, l.loc, LTemp(l.temp)))

\* encode_pop, after the stack pointer l is loaded.
pop_load(l, dest) ==
    pop_adjust(unwrap(encode_move(l.e, dest, Indirect(loc_data_type(dest), 0, l.temp))),
               l, loc_data_type(dest))

\* encode_pop
encode_pop(e, dest) == pop_load(encode_load_operand(e, ODirect("RSP")), dest)

\* encode_move_casted, after the destination g and the source l.
move_casted_emit(g, l, signed) ==
    unwrap(encode_move(push(l.e, OpCast(l.temp, loc_data_type(g.loc), signed)),
                       g.loc, LTemp(Temporary(loc_data_type(g.loc), l.temp.idx))))

\* encode_move_casted, after the destination g is prepared.
move_casted_load(g, operand, signed) ==
    move_casted_emit(g, encode_load_operand(g.e, operand), signed)

\* encode_move_casted
encode_move_casted(e, inst, signed) ==
    move_casted_load(encode_get_location(e, inst.operands[1]), inst.operands[2], signed)

\* The Mov arm of encode with encode_move for every pair of widths.
mov_emit_strict(d, s, inst) == encode_move(s.e, d.loc, s.loc)

\* The Mov arm of encode, after both locations d and s: widths that differ
\* clear the buffer, reset the counter and encode the move again with a cast.
mov_emit(d, s, inst) ==
    IF loc_data_type(d.loc) # loc_data_type(s.loc)
    THEN encode_move_casted([s.e EXCEPT !.ops = <<>>, !.temps = 0], inst, TRUE)
    ELSE encode_move(s.e, d.loc, s.loc)

\* The Mov arm of encode, after the destination d.
mov_src(d, inst) == mov_emit(d, encode_get_location(d.e, inst.operands[2]), inst)

\* The Mov arm of encode.
encode_mov(e, inst) == mov_src(encode_get_location(e, inst.operands[1]), inst)

\* The Lea arm of encode, after both locations d and s.
lea_emit(d, s) ==
    IF s.loc.kind = "Indirect"
    THEN encode_move(s.e, d.loc, LTemp(s.loc.temp))
    ELSE [e |-> s.e, st |-> "panic"]

\* The Lea arm of encode, after the destination d.
lea_src(d, operand) == lea_emit(d, encode_get_location(d.e, operand))

\* The Lea arm of encode.
encode_lea(e, inst) == lea_src(encode_get_location(e, inst.operands[1]), inst.operands[2])

\* The Push arm of encode, and the push of RIP in the Call arm.
push_location(g) == encode_push(g.e, g.loc)

\* The Pop arm of encode.
pop_location(g) == encode_pop(g.e, g.loc)

\* The Call arm of encode, the jump after the push p.
call_jump(p, operand) ==
    IF p.st # "ok" THEN p ELSE encode_jump(p.e, operand, CondTrue)

\* The Call arm of encode.
encode_call(e, inst) ==
    call_jump(push_location(encode_get_location(e, ODirect("RIP"))), inst.operands[1])

\* The Leave arm of encode, the pop after the move m.
leave_pop(m, rbp) == IF m.st # "ok" THEN m ELSE encode_pop(m.e, rbp.loc)

\* The Leave arm of encode, after both locations.
leave_move(rbp, rsp) == leave_pop(unwrap(encode_move(rsp.e, rsp.loc, rbp.loc)), rbp)

\* The Leave arm of encode, after the location of RBP.
leave_rsp(rbp) == leave_move(rbp, encode_get_location(rbp.e, ODirect("RSP")))

\* The Leave arm of encode.
encode_leave(e) == leave_rsp(encode_get_location(e, ODirect("RBP")))

\* The Ret arm of encode, the jump after the pop p.
ret_jump(p, target) ==
    IF p.st # "ok" THEN p
    ELSE [e |-> push(p.e, OpJump(target, CondTrue, FALSE)), st |-> "ok"]

\* The Ret arm of encode.
encode_ret(e) ==
    ret_jump(encode_pop([e EXCEPT !.temps = @ + 1], LTemp(Temporary(N64, e.temps))),
             Temporary(N64, e.temps))

\* A conditional jump or set: get_comparison() panics before anything is emitted.
encode_conditional(e, inst, kind) ==
    IF e.last_comparison.kind = "None"
    THEN [e |-> e, st |-> "panic"]
    ELSE IF inst.mnemoic = "Setl"
         THEN encode_set(e, inst.operands[1], Condition(kind, e.last_comparison))
         ELSE encode_jump(e, inst.operands[1], Condition(kind, e.last_comparison))

\* The arms of encode that record a comparison, keeping one recorded before.
flags_record_first(r, op) ==
    [e |-> IF r.e.last_comparison = NoComparison
           THEN [r.e EXCEPT !.last_comparison = Comparison(op, r.left, r.right)]
           ELSE r.e,
     st |-> "ok"]

\* The arms of encode that record a comparison, after the operands r.
flags_record(r, op) ==
    [e |-> [r.e EXCEPT !.last_comparison = Comparison(op, r.left, r.right)], st |-> "ok"]

\* The arms of encode that record a comparison.
encode_flags(e, inst) ==
    CASE inst.mnemoic = "Add" -> flags_record(encode_binop(e, inst, "Add"), "Add")
      [] inst.mnemoic = "Sub" -> flags_record(encode_binop(e, inst, "Sub"), "Sub")
      [] inst.mnemoic = "Imul" -> flags_record(encode_binop(e, inst, "Mul"), "Mul")
      [] inst.mnemoic = "Cmp" -> flags_record(encode_load_both(e, inst), "Sub")
      [] inst.mnemoic = "Test" -> flags_record(encode_load_both(e, inst), "And")

\* MicroEncoder::encode: the encoder after the call, and whether the call
\* returned Ok ("ok"), returned Err ("err") or panicked ("panic").
encode(e, inst) ==
    CASE inst.mnemoic \in {"Add", "Sub", "Imul", "Cmp", "Test"} -> encode_flags(e, inst)
      [] inst.mnemoic = "Mov" -> encode_mov(e, inst)
      [] inst.mnemoic = "Movzx" -> encode_move_casted(e, inst, FALSE)
      [] inst.mnemoic = "Lea" -> encode_lea(e, inst)
      [] inst.mnemoic = "Push" -> push_location(encode_get_location(e, inst.operands[1]))
      [] inst.mnemoic = "Pop" -> pop_location(encode_get_location(e, inst.operands[1]))
      [] inst.mnemoic = "Jmp" -> encode_jump(e, inst.operands[1], CondTrue)
      [] inst.mnemoic = "Je" -> encode_conditional(e, inst, "Equal")
      [] inst.mnemoic = "Jg" -> encode_conditional(e, inst, "Greater")
      [] inst.mnemoic = "Call" -> encode_call(e, inst)
      [] inst.mnemoic = "Leave" -> encode_leave(e)
      [] inst.mnemoic = "Ret" -> encode_ret(e)
      [] inst.mnemoic = "Setl" -> encode_conditional(e, inst, "Less")
      [] inst.mnemoic = "Syscall" -> [e |-> push(e, OpSyscall), st |-> "ok"]
      [] inst.mnemoic = "Nop" -> [e |-> e, st |-> "ok"]

\* MicroEncoder::finish: the encoder after the call and the Microcode returned.
finish(e) == [e |-> [e EXCEPT !.ops = <<>>], code |-> e.ops]

----------------------------------------------------------------------------
(* SymState: the symbolic machine state and step.                           *)

\* Event::{Jump, Stdio, Exit}, and None for a step that returns no event.
Event(kind, target, condition, relative, stdio, locs) ==
    [kind |-> kind, target |-> target, condition |-> condition,
     relative |-> relative, stdio |-> stdio, locs |-> locs]
NoEvent == Event("None", NoExpr, CondTrue, FALSE, "", <<>>)
EventJump(target, condition, relative) ==
    Event("Jump", target, condition, relative, "", <<>>)
EventStdio(kind, locs) == Event("Stdio", NoExpr, CondTrue, FALSE, kind, locs)
EventExit == Event("Exit", NoExpr, CondTrue, FALSE, "", <<>>)

\* What a method of the state gives back: the state after it, the value and
\* the event it returns, and "panic" when it panicked on the way.
Out(s, expr, event, st) == [s |-> s, expr |-> expr, event |-> event, st |-> st]
Ok(s) == Out(s, NoExpr, NoEvent, "ok")
Value(s, expr) == Out(s, expr, NoEvent, "ok")
Panic(s) == Out(s, NoExpr, NoEvent, "panic")

\* SymState::new(mem_strategy, solver)
SymStateNew(mem_strategy, solver) ==
    [temporaries |-> [i \in {} |-> NoExpr],
     memory |-> <<SymMemoryNew("mem", mem_strategy, solver),
                  SymMemoryNew("reg", "PerfectMatches", solver)>>,
     symbol_map |-> {},
     trace |-> <<>>,
     ip |-> 0,
     stdin_symbols |-> 0,
     stdout_symbols |-> 0]

\* get_temp(temp): panics when the temporary is not there or has another width.
get_temp(s, temp) ==
    IF \/ temp.idx \notin DOMAIN s.temporaries
       \/ data_type(s.temporaries[temp.idx]) # temp.dt
    THEN Panic(s)
    ELSE Value(s, s.temporaries[temp.idx])

\* set_temp(temp, value): asserts the width of the value.
set_temp(s, temp, value) ==
    IF temp.dt # data_type(value)
    THEN Panic(s)
    ELSE Ok([s EXCEPT !.temporaries = (temp.idx :> value) @@ @])

\* A read of the memory of the given space: the value read, and the state
\* with the default symbol the read may have generated.
read_memory(s, space, addr, dt) ==
    Value([s EXCEPT !.memory[space + 1] = read_expr(@, addr, dt).mem],
          read_expr(s.memory[space + 1], addr, dt).expr)

\* get_reg(reg)
get_reg(s, reg) == read_memory(s, 1, from_ptr(address(reg)), reg_data_type(reg))

\* set_reg(reg, value)
set_reg(s, reg, value) ==
    [s EXCEPT !.memory[2] = write_direct(@, address(reg), value)]

\* read_location, Indirect: the address is the temporary's value, of 64 bits.
read_indirect(g, src) ==
    IF g.st = "panic" THEN g
    ELSE IF data_type(g.expr) # N64 THEN Panic(g.s)
    ELSE read_memory(g.s, src.space, g.expr, src.dt)

\* read_location(src)
read_location(s, src) ==
    CASE src.kind = "Temp" -> get_temp(s, src.temp)
      [] src.kind = "Direct" -> read_memory(s, src.space, from_ptr(src.addr), src.dt)
      [] src.kind = "Indirect" -> read_indirect(get_temp(s, src.temp), src)

\* write_location, Direct: asserts the width of the value.
write_to_direct(s, dest, value) ==
    IF dest.dt # data_type(value) THEN Panic(s)
    ELSE Ok([s EXCEPT !.memory[dest.space + 1] = write_direct(@, dest.addr, value)])

\* write_location, Indirect: the address is read first, then both asserts.
write_to_indirect(g, dest, value) ==
    IF g.st = "panic" THEN g
    ELSE IF data_type(g.expr) # N64 \/ dest.dt # data_type(value) THEN Panic(g.s)
    ELSE Ok([g.s EXCEPT !.memory[dest.space + 1] = write_expr(@, g.expr, value)])

\* write_location(dest, value)
write_location(s, dest, value) ==
    CASE dest.kind = "Temp" -> set_temp(s, dest.temp, value)
      [] dest.kind = "Direct" -> write_to_direct(s, dest, value)
      [] dest.kind = "Indirect" -> write_to_indirect(get_temp(s, dest.temp), dest, value)

\* do_move: the value read is written.
move_value(g, dest) ==
    IF g.st = "panic" THEN g ELSE write_location(g.s, dest, g.expr)

\* do_move(dest, src): asserts that both locations have one width.
do_move(s, dest, src) ==
    IF dest.dt # src.dt THEN Panic(s)
    ELSE move_value(read_location(s, src), dest)

\* The binary operation of a microcode operation.
binop(op, a, b) ==
    CASE op = "Add" -> AddExpr(a, b)
      [] op = "Sub" -> SubExpr(a, b)
      [] op = "Mul" -> MulExpr(a, b)
      [] op = "And" -> BitAndExpr(a, b)
      [] op = "Or" -> BitOrExpr(a, b)

\* do_binop: both operands are there.
binop_set(ga, gb, target, op) ==
    IF ga.st = "panic" \/ gb.st = "panic" THEN Panic(ga.s)
    ELSE set_temp(ga.s, target, binop(op, ga.expr, gb.expr))

\* do_binop(target, a, b, binop)
do_binop(s, target, a, b, op) ==
    binop_set(get_temp(s, a), get_temp(s, b), target, op)

\* Op::Cast: the temporary of the new width at the same index is set.
cast_set(g, target, new, signed) ==
    IF g.st = "panic" THEN g
    ELSE set_temp(g.s, Temporary(new, target.idx), cast(g.expr, new, signed))

\* Op::Not
not_set(g, target) ==
    IF g.st = "panic" THEN g
    ELSE set_temp(g.s, target, BitNotExpr(g.expr))

\* evaluate_condition, with both temporaries of the comparison there: the
\* condition over the comparison of their values.
condition_over(ga, gb, condition) ==
    IF ga.st = "panic" \/ gb.st = "panic" THEN Panic(ga.s)
    ELSE Value(ga.s, CondOver(condition.kind,
                              Node(condition.cmp.kind, data_type(ga.expr), 0, "",
                                   <<ga.expr, gb.expr>>)))

\* evaluate_condition(condition): the temporaries the condition names are
\* replaced by their values.
evaluate_condition(s, condition) ==
    IF condition.kind = "True" THEN Value(s, CondTRUE)
    ELSE condition_over(get_temp(s, condition.cmp.a), get_temp(s, condition.cmp.b),
                        condition)

\* Op::Set
set_set(g, target) ==
    IF g.st = "panic" THEN g
    ELSE set_temp(g.s, target, as_expr(g.expr, target.dt))

\* Op::Jump whose event is always an absolute jump.
jump_event_absolute(g, condition, relative) ==
    IF g.st = "panic" THEN g
    ELSE Out(g.s, NoExpr, EventJump(g.expr, condition, FALSE), "ok")

\* Op::Jump: the event with the value of the target temporary.
jump_event(g, condition, relative) ==
    IF g.st = "panic" THEN g
    ELSE Out(g.s, NoExpr, EventJump(g.expr, condition, relative), "ok")

\* AbstractLocation of the i-th byte of the buffer at RSI.
AbstractLocation(s, i) ==
    [addr |-> s.ip, trace |-> s.trace,
     storage |-> [data_type |-> N8, base |-> "RSI",
                  displacement |-> IF i > 0 THEN i ELSE -1]]

\* symbol_map.insert(symbol, location)
map_insert(map, symbol, location) ==
    {e \in map : e.symbol # symbol} \cup {[symbol |-> symbol, location |-> location]}

\* The symbol of the next byte, numbered by one counter for both streams.
stdio_symbol_shared(s, read) ==
    IF read THEN SymE(N8, "stdin", s.stdin_symbols + s.stdout_symbols)
    ELSE SymE(N8, "stdout", s.stdin_symbols + s.stdout_symbols)

\* The symbol of the next byte read or written.
stdio_symbol(s, read) ==
    IF read THEN SymE(N8, "stdin", s.stdin_symbols)
    ELSE SymE(N8, "stdout", s.stdout_symbols)

\* One round of the loop that stores the symbol for a write as well.
stdio_byte_storing(s, read, buf, i) ==
    [s EXCEPT !.stdin_symbols = IF read THEN @ + 1 ELSE @,
              !.stdout_symbols = IF read THEN @ ELSE @ + 1,
              !.memory[1] = write_expr(@, AddExpr(buf, from_ptr(i)), stdio_symbol(s, read)),
              !.symbol_map = map_insert(@, stdio_symbol(s, read), AbstractLocation(s, i))]

\* One round of the loop of do_syscall over the bytes.
stdio_byte(s, read, buf, i) ==
    [s EXCEPT !.stdin_symbols = IF read THEN @ + 1 ELSE @,
              !.stdout_symbols = IF read THEN @ ELSE @ + 1,
              !.memory[1] = IF read
                            THEN write_expr(@, AddExpr(buf, from_ptr(i)), stdio_symbol(s, read))
                            ELSE @,
              !.symbol_map = map_insert(@, stdio_symbol(s, read), AbstractLocation(s, i))]

\* The loop of do_syscall from byte i on, and the event it ends with.
RECURSIVE stdio_loop(_, _, _, _, _, _)
stdio_loop(s, read, buf, i, byte_count, locs) ==
    IF i >= byte_count
    THEN Out(s, NoExpr, EventStdio(IF read THEN "Stdin" ELSE "Stdout", locs), "ok")
    ELSE stdio_loop(stdio_byte(s, read, buf, i), read, buf, i + 1, byte_count,
                    Append(locs, [symbol |-> stdio_symbol(s, read),
                                  access |-> [addr |-> AddExpr(buf, from_ptr(i)),
                                              dt |-> N8]]))

\* do_syscall, 0 | 1, with RSI and RDX read: the count is a 64-bit constant.
stdio_count(gcount, read, buf) ==
    IF gcount.expr.tag = "Int" /\ gcount.expr.dt = N64
    THEN stdio_loop(gcount.s, read, buf, 0, gcount.expr.n, <<>>)
    ELSE Panic(gcount.s)

\* do_syscall, 0 | 1, with RSI read.
stdio_buf(gbuf, read) == stdio_count(get_reg(gbuf.s, "RDX"), read, gbuf.expr)

\* do_syscall that knows read and write only.
do_syscall_stdio_only(s, num) ==
    CASE num \in {0, 1} -> stdio_buf(get_reg(s, "RSI"), num = 0)
      [] OTHER -> Panic(s)

\* do_syscall(num)
do_syscall(s, num) ==
    CASE num \in {0, 1} -> stdio_buf(get_reg(s, "RSI"), num = 0)
      [] num = 60 -> Out(s, NoExpr, EventExit, "ok")
      [] OTHER -> Panic(s)

\* Op::Syscall that does nothing when RAX is no constant.
syscall_rax_lenient(g) ==
    IF g.expr.tag = "Int" THEN do_syscall(g.s, g.expr.n) ELSE Ok(g.s)

\* Op::Syscall: the number is the constant RAX reads as.
syscall_rax(g) ==
    IF g.expr.tag = "Int" THEN do_syscall(g.s, g.expr.n) ELSE Panic(g.s)

\* track that takes every mnemonic but Ret for a call.
track_every(s, inst, addr) ==
    CASE inst.mnemoic = "Ret" ->
            [s EXCEPT !.trace = IF @ = <<>> THEN @ ELSE SubSeq(@, 1, Len(@) - 1)]
      [] OTHER -> [s EXCEPT !.trace = Append(@, addr)]

\* track(instruction, addr): Vec::pop on the empty trace gives None.
track(s, inst, addr) ==
    CASE inst.mnemoic = "Call" -> [s EXCEPT !.trace = Append(@, addr)]
      [] inst.mnemoic = "Ret" ->
            [s EXCEPT !.trace = IF @ = <<>> THEN @ ELSE SubSeq(@, 1, Len(@) - 1)]
      [] OTHER -> s

\* step that sets ip and leaves the RIP register alone.
step_enter_ip_only(s, addr) == [s EXCEPT !.ip = addr]

\* step, before the operation: RIP and ip are the address.
step_enter(s, addr) ==
    [set_reg(s, "RIP", from_ptr(addr)) EXCEPT !.ip = addr]

\* step, the match on the operation.
step_dispatch(s, op) ==
    CASE op.op = "Mov" -> do_move(s, op.dest, op.src)
      [] op.op = "Const" ->
            set_temp(s, op.dest.temp, IntExpr(op.constant.dt, op.constant.v))
      [] op.op = "Cast" -> cast_set(get_temp(s, op.t), op.t, op.new, op.signed)
      [] op.op \in {"Add", "Sub", "Mul", "And", "Or"} -> do_binop(s, op.t, op.a, op.b, op.op)
      [] op.op = "Not" -> not_set(get_temp(s, op.a), op.t)
      [] op.op = "Set" -> set_set(evaluate_condition(s, op.condition), op.t)
      [] op.op = "Jump" -> jump_event(get_temp(s, op.t), op.condition, op.relative)
      [] op.op = "Syscall" -> syscall_rax(get_reg(s, "RAX"))

\* step(addr, operation)
step(s, addr, op) == step_dispatch(step_enter(s, addr), op)

----------------------------------------------------------------------------
(* The memories as a state machine.                                         *)

Strategies == {"ConditionalTrees", "PerfectMatches"}
Mems == {1, 2}

\* What is remembered of an operation: its kind, address, the value written
\* or the width read, what each memory returned, and whether the operation
\* before it was of the same kind at the same address (a read: and width).
OpRec(kind, addr, value, dt, res) ==
    [kind |-> kind, addr |-> addr, value |-> value, dt |-> dt, res |-> res,
     again |-> /\ last.kind = kind
               /\ last.addr = addr
               /\ (kind = "read" => last.dt = dt)]
NoOp == [kind |-> "none", addr |-> NoExpr, value |-> NoExpr, dt |-> 0,
         res |-> [i \in Mems |-> NoExpr], again |-> FALSE]

\* Whether the operation can run within the caps of the counters.
CanAppend(m) == m.epoch < MaxEpoch
CanGenerate(m) == m.symbols < MaxSymbols

\* The write order with addr moved to the end.
Rewritten(addr) ==
    SelectSeq(worder, LAMBDA a : a # addr) \o <<addr>>

DoWrite(addr, value) ==
    /\ \A i \in Mems : CanAppend(mem[i])
    /\ mem' = [i \in Mems |-> write_expr(mem[i], addr, value)]
    /\ last' = OpRec("write", addr, value, data_type(value), [i \in Mems |-> NoExpr])
    /\ worder' = Rewritten(addr)
    /\ UNCHANGED <<encvars, stepvars>>

DoRead(addr, dt) ==
    /\ \A i \in Mems : CanGenerate(mem[i])
    /\ mem' = [i \in Mems |-> read_expr(mem[i], addr, dt).mem]
    /\ last' = OpRec("read", addr, NoExpr, dt,
                     [i \in Mems |-> read_expr(mem[i], addr, dt).expr])
    /\ UNCHANGED <<worder, encvars, stepvars>>

\* write_expr(addr, value)
WriteExpr == \E addr \in ExprAddrs, value \in Values : DoWrite(addr, value)
\* write_direct(addr, value)
WriteDirect == \E addr \in DirectAddrs, value \in Values : DoWrite(from_ptr(addr), value)
\* read_expr(addr, data_type)
ReadExpr == \E addr \in ExprAddrs, dt \in ReadTypes : DoRead(addr, dt)
\* read_direct(addr, data_type)
ReadDirect == \E addr \in DirectAddrs, dt \in ReadTypes : DoRead(from_ptr(addr), dt)

NextMem == WriteExpr \/ WriteDirect \/ ReadExpr \/ ReadDirect

----------------------------------------------------------------------------
(* The encoder as a state machine.                                          *)

\* The instructions handed to encode.  Displacements, immediates and offsets
\* are small and not negative, so that `as u64` leaves them as they are.
Instructions == {
    Instruction("Add", <<ODirect("R8"), OIndirectDisplaced(N64, "RDI", 10)>>),
    Instruction("Sub", <<ODirect("RSP"), OImmediate(N8, 16)>>),
    Instruction("Imul", <<ODirect("EAX"), ODirect("EDX")>>),
    Instruction("Mov", <<ODirect("ESI"), ODirect("EDX")>>),
    Instruction("Mov", <<ODirect("RAX"), OImmediate(N32, 60)>>),
    Instruction("Mov", <<OIndirect(N32, "RBP"), ODirect("EDI")>>),
    Instruction("Mov", <<OIndirect(N64, "RBP"), OImmediate(N32, 1)>>),
    Instruction("Mov", <<ODirect("EAX"), OIndirectDisplaced(N32, "EBP", 4)>>),
    Instruction("Movzx", <<ODirect("EAX"), ODirect("AL")>>),
    Instruction("Lea", <<ODirect("RAX"), OIndirectDisplaced(N64, "RBP", 12)>>),
    Instruction("Lea", <<ODirect("EAX"), OIndirect(N32, "RBP")>>),
    Instruction("Push", <<ODirect("RBP")>>),
    Instruction("Pop", <<ODirect("RBP")>>),
    Instruction("Jmp", <<OOffset(7)>>),
    Instruction("Je", <<OOffset(14)>>),
    Instruction("Jg", <<OOffset(9)>>),
    Instruction("Call", <<OOffset(5)>>),
    Instruction("Leave", <<>>),
    Instruction("Ret", <<>>),
    Instruction("Cmp", <<ODirect("EAX"), OIndirect(N32, "RBP")>>),
    Instruction("Test", <<ODirect("EAX"), ODirect("EAX")>>),
    Instruction("Setl", <<ODirect("AL")>>),
    Instruction("Syscall", <<>>),
    Instruction("Nop", <<>>) }

NoInst == Instruction("None", <<>>)

\* What is remembered of the last call: which, its instruction (of a finish:
\* the instruction encoded last before it), how it ended and the Microcode it
\* returned.
CallRec(call, inst, result, code) ==
    [call |-> call, inst |-> inst, result |-> result, code |-> code]

\* The encoder held in the variables.
Enc == [ops |-> ops, temps |-> temps, last_comparison |-> last_comparison]

SetEnc(e) ==
    /\ ops' = e.ops
    /\ temps' = e.temps
    /\ last_comparison' = e.last_comparison

\* Both memories are SymMemory::new("mem", strategy, solver) of one strategy;
\* memory 1 holds the exact solver and memory 2 the lazy one.  The encoder is
\* MicroEncoder::new().
Init ==
    /\ \E st \in Strategies :
         /\ mem = [i \in Mems |-> SymMemoryNew("mem", st, IF i = 1 THEN "exact" ELSE "lazy")]
         /\ sym = SymStateNew(st, "exact")
    /\ steps = <<>>
    /\ tracked = <<>>
    /\ last = NoOp
    /\ worder = <<>>
    /\ ops = MicroEncoderNew.ops
    /\ temps = MicroEncoderNew.temps
    /\ last_comparison = MicroEncoderNew.last_comparison
    /\ elast = CallRec("new", NoInst, "ok", <<>>)

\* A panic ends the program: nothing is called on the encoder afterwards.
Alive == elast.result # "panic"

\* encoder.encode(&inst)
Encode ==
    /\ Alive
    /\ Len(ops) < MaxOps
    /\ temps < MaxTemps
    /\ \E inst \in Instructions :
         \E r \in {encode(Enc, inst)} :
            /\ SetEnc(r.e)
            /\ elast' = CallRec("encode", inst, r.st, <<>>)
    /\ UNCHANGED <<memvars, stepvars>>

\* encoder.finish()
Finish ==
    /\ Alive
    /\ \E r \in {finish(Enc)} :
          /\ SetEnc(r.e)
          /\ elast' = CallRec("finish", elast.inst, "ok", r.code)
    /\ UNCHANGED <<memvars, stepvars>>

NextEnc == Encode \/ Finish

\* The encoder alone, and the memories alone.
SpecEnc == Init /\ [][NextEnc]_vars
SpecMem == Init /\ [][NextMem]_vars

----------------------------------------------------------------------------
(* The state stepped as a state machine.                                    *)

\* The microcode of `mov eax, 0x3c; syscall` as the encoder emits it.
ExitProgram ==
    <<Instruction("Mov", <<ODirect("EAX"), OImmediate(N32, 60)>>),
      Instruction("Syscall", <<>>)>>
ExitCode ==
    finish(encode(encode(MicroEncoderNew, ExitProgram[1]).e, ExitProgram[2]).e).code

\* The register cells.
RegCell(reg) == Direct(reg_data_type(reg), 1, address(reg))

\* The operations stepped.
StepOps ==
    {ExitCode[i] : i \in 1 .. Len(ExitCode)} \cup
    {OpConst(LTemp(Temporary(N64, 1)), Integer(N64, 0)),
     OpConst(LTemp(Temporary(N64, 1)), Integer(N64, 1)),
     OpJump(Temporary(N64, 1),
            Condition("Equal", Comparison("Sub", Temporary(N32, 0), Temporary(N32, 0))),
            TRUE),
     OpMov(LTemp(Temporary(N64, 2)), RegCell("RIP")),
     OpMov(RegCell("RIP"), LTemp(Temporary(N64, 1))),
     OpMov(RegCell("RAX"), LTemp(Temporary(N64, 1))),
     OpMov(RegCell("RDX"), LTemp(Temporary(N64, 1))),
     OpMov(Indirect(N64, 0, Temporary(N64, 1)), RegCell("RIP")),
     OpCast(Temporary(N32, 0), N64, TRUE),
     OpBin("Add", Temporary(N64, 2), Temporary(N64, 1), Temporary(N64, 1)),
     OpSet(Temporary(N8, 2),
           Condition("Less", Comparison("Sub", Temporary(N64, 1), Temporary(N64, 1))))}

\* The addresses of the instructions stepped.
StepAddrs == {4, 9}

\* What is remembered of a call of step.
StepRec(addr, op, g) ==
    [addr |-> addr, op |-> op, event |-> g.event, result |-> g.st]

\* A panic ends the program: nothing is stepped afterwards.
Running == IF steps = <<>> THEN TRUE ELSE steps[Len(steps)].result # "panic"

\* state.step(addr, &operation)
Step ==
    /\ Running
    /\ Len(steps) < MaxSteps
    /\ \E addr \in StepAddrs, op \in StepOps :
         \E g \in {step(sym, addr, op)} :
            /\ sym' = g.s
            /\ steps' = Append(steps, StepRec(addr, op, g))
    /\ UNCHANGED <<memvars, encvars, tracked>>

NextStep == Step

\* The state alone.
SpecStep == Init /\ [][NextStep]_vars

----------------------------------------------------------------------------
(* The call trace as a state machine.                                       *)

\* The instructions handed to track.
TrackInstructions ==
    {inst \in Instructions : inst.mnemoic \in {"Call", "Ret", "Push", "Nop"}}

\* state.track(&instruction, addr)
Track ==
    /\ Len(tracked) < MaxTracks
    /\ \E inst \in TrackInstructions, addr \in StepAddrs :
          /\ sym' = track(sym, inst, addr)
          /\ tracked' = Append(tracked, [mnemoic |-> inst.mnemoic, addr |-> addr])
    /\ UNCHANGED <<memvars, encvars, steps>>

NextTrack == Track

\* The trace alone.
SpecTrack == Init /\ [][NextTrack]_vars

----------------------------------------------------------------------------
(* The syscalls of one state as a state machine: of the calls of step only  *)
(* the last one is remembered, of the calls of track none.                  *)

\* The operations stepped: they set RAX (to 0, 1, 2 or 60) and RDX, and call.
SysOps ==
    {ExitCode[i] : i \in 1 .. Len(ExitCode)} \cup
    {OpConst(LTemp(Temporary(N64, 1)), Integer(N64, v)) : v \in 0 .. 2} \cup
    {OpMov(RegCell("RAX"), LTemp(Temporary(N64, 1))),
     OpMov(RegCell("RDX"), LTemp(Temporary(N64, 1)))}

\* state.step(addr, &operation)
SysStep ==
    /\ Running
    /\ sym.stdin_symbols + sym.stdout_symbols < MaxIssued
    /\ \E addr \in StepAddrs, op \in SysOps :
         \E g \in {step(sym, addr, op)} :
            /\ sym' = g.s
            /\ steps' = <<StepRec(addr, op, g)>>
    /\ UNCHANGED <<memvars, encvars, tracked>>

\* The address of the Call tracked between syscalls.
CallAddrs == {4}

\* state.track(&instruction, addr): a Call from the outermost frame, or a Ret.
SysTrack ==
    /\ Running
    /\ \E inst \in {i \in Instructions : i.mnemoic \in {"Call", "Ret"}}, addr \in CallAddrs :
          /\ inst.mnemoic = "Call" => sym.trace = <<>>
          /\ sym' = track(sym, inst, addr)
    /\ UNCHANGED <<memvars, encvars, steps, tracked>>

NextSys == SysStep \/ SysTrack

SpecSys == Init /\ [][NextSys]_vars

----------------------------------------------------------------------------
(* Encoder and state as the executor drives them: an instruction is        *)
(* tracked, encoded, and its microcode stepped in order.                    *)

\* The instructions executed.
ExecInstructions ==
    {Instruction("Push", <<ODirect("RBP")>>),
     Instruction("Push", <<ODirect("RSP")>>),
     Instruction("Push", <<ODirect("EAX")>>),
     Instruction("Pop", <<ODirect("RBP")>>),
     Instruction("Pop", <<ODirect("RSP")>>),
     Instruction("Pop", <<ODirect("EAX")>>),
     Instruction("Mov", <<OIndirect(N64, "RBP"), ODirect("RDI")>>),
     Instruction("Mov", <<ODirect("RAX"), OImmediate(N32, 60)>>),
     Instruction("Cmp", <<ODirect("EAX"), ODirect("EDX")>>),
     Instruction("Setl", <<ODirect("AL")>>)}

\* The address of the instructions executed.
ExecAddrs == {4}

\* The operations of the code from the k-th on stepped in order, up to a
\* panic: the state after them and the calls of step.
RECURSIVE run_from(_, _, _, _, _)
RECURSIVE run_on(_, _, _, _, _)
run_on(g, addr, code, k, recs) ==
    IF g.st = "panic"
    THEN [s |-> g.s, recs |-> Append(recs, StepRec(addr, code[k], g))]
    ELSE run_from(g.s, addr, code, k + 1, Append(recs, StepRec(addr, code[k], g)))
run_from(s, addr, code, k, recs) ==
    IF k > Len(code) THEN [s |-> s, recs |-> recs]
    ELSE run_on(step(s, addr, code[k]), addr, code, k, recs)

\* The microcode of an encode that returned Ok, none otherwise.
encoded(r) == IF r.st = "ok" THEN finish(r.e) ELSE [e |-> r.e, code |-> <<>>]

\* state.track(&inst, addr); encoder.encode(&inst); encoder.finish();
\* state.step(addr, &op) for each operation
Execute ==
    /\ Alive
    /\ Running
    /\ Len(tracked) < MaxTracks
    /\ \E inst \in ExecInstructions, addr \in ExecAddrs :
         \E r \in {encode(Enc, inst)} :
            \E f \in {encoded(r)} :
               \E x \in {run_from(track(sym, inst, addr), addr, f.code, 1, <<>>)} :
                  /\ SetEnc(f.e)
                  /\ elast' = CallRec("finish", inst, r.st, f.code)
                  /\ sym' = x.s
                  /\ steps' = x.recs
                  /\ tracked' = Append(tracked, [mnemoic |-> inst.mnemoic, addr |-> addr])
    /\ UNCHANGED memvars

NextRun == Execute

SpecRun == Init /\ [][NextRun]_vars

----------------------------------------------------------------------------
(* The registers of one state as a state machine: set_reg and get_reg.     *)

\* The registers written and read.
Regs == {"AL", "AH", "RAX", "CH", "RBP", "RSP"}

\* The values written to a register: constants of its width.
RegValues(reg) == {IntExpr(reg_data_type(reg), v) : v \in 1 .. 2}

\* state.set_reg(reg, value)
SetReg ==
    /\ \E reg \in Regs : \E value \in RegValues(reg) :
          sym' = set_reg(sym, reg, value)
    /\ UNCHANGED <<memvars, encvars, steps, tracked>>

\* state.get_reg(reg): the read memoizes the default value it generates.
GetReg ==
    /\ \E reg \in Regs : sym' = get_reg(sym, reg).s
    /\ UNCHANGED <<memvars, encvars, steps, tracked>>

NextReg == SetReg \/ GetReg

SpecReg == Init /\ [][NextReg]_vars

----------------------------------------------------------------------------
(* A ConditionalTrees and a PerfectMatches memory over one solver, driven   *)
(* by one sequence of reads and writes at concrete addresses.               *)

\* The concrete addresses written and read.
PairAddrs == {0, 8, 16}

InitPair ==
    /\ mem = [i \in Mems |->
                SymMemoryNew("mem", IF i = 1 THEN "ConditionalTrees" ELSE "PerfectMatches",
                             "exact")]
    /\ sym = SymStateNew("ConditionalTrees", "exact")
    /\ steps = <<>>
    /\ tracked = <<>>
    /\ last = NoOp
    /\ worder = <<>>
    /\ ops = MicroEncoderNew.ops
    /\ temps = MicroEncoderNew.temps
    /\ last_comparison = MicroEncoderNew.last_comparison
    /\ elast = CallRec("new", NoInst, "ok", <<>>)

\* write_direct(addr, value) on both memories
PairWrite == \E addr \in PairAddrs, value \in Values : DoWrite(from_ptr(addr), value)
\* read_direct(addr, data_type) on both memories
PairRead == \E addr \in PairAddrs, dt \in ReadTypes : DoRead(from_ptr(addr), dt)

NextPair == PairWrite \/ PairRead

SpecPair == InitPair /\ [][NextPair]_vars

----------------------------------------------------------------------------
(* Memories, encoder and state together.                                    *)

Next == NextMem \/ NextEnc \/ NextStep \/ NextTrack \/ NextSys \/ NextRun \/ NextReg \/ NextPair
Spec == Init /\ [][Next]_vars

----------------------------------------------------------------------------
(* Claims about SymMemory, checked under SpecMem.                           *)

IsRead(op) == op.kind = "read"
IsWrite(op) == op.kind = "write"
HasEntry(m, addr) == first_match(m, addr) # 0
EntryOf(m, addr) == m.entries[first_match(m, addr)]

\* C1: a write of v at address a immediately followed by a read at the same
\* address expression with the width of v returns exactly v, in both memories.
C1_WriteReadReturnsValue ==
    [][(IsWrite(last) /\ IsRead(last') /\ last'.addr = last.addr /\ last'.dt = last.dt)
         => \A i \in Mems : last'.res[i] = last.value]_vars

\* C2: two writes to the same address expression followed by a read of it with
\* the width of the second value leave one entry for the address, and the
\* read returns the second value.
C2_WriteWriteReadReturnsLast ==
    [][(IsWrite(last) /\ last.again /\ IsRead(last')
          /\ last'.addr = last.addr /\ last'.dt = last.dt)
         => \A i \in Mems :
              /\ last'.res[i] = last.value
              /\ Cardinality({k \in 1..Len(mem[i].entries) :
                                mem[i].entries[k].addr = last.addr}) = 1]_vars

\* C3: two consecutive reads of one address and width, with no write between
\* them, return the same expression.
C3_ConsecutiveReadsAgree ==
    [][(IsRead(last) /\ IsRead(last') /\ last'.addr = last.addr /\ last'.dt = last.dt)
         => \A i \in Mems : last'.res[i] = last.res[i]]_vars

\* C3 witness: a second read in a row of an address whose first read
\* synthesized the default symbol, now returned again.
C3_Witness ==
    /\ IsRead(last) /\ last.again
    /\ \A i \in Mems :
         /\ HasEntry(mem[i], last.addr)
         /\ EntryOf(mem[i], last.addr).epoch = 0
         /\ last.res[i] = EntryOf(mem[i], last.addr).value
         /\ Len(mem[i].entries) >= 2

\* C4: no two entries of a memory have equal address expressions.
C4_UniqueAddresses ==
    \A i \in Mems : \A j, k \in 1..Len(mem[i].entries) :
        j # k => mem[i].entries[j].addr # mem[i].entries[k].addr

\* C4 witness: an address was written twice in a row while other entries,
\* one of them a memoized default symbol, exist.
C4_Witness ==
    /\ IsWrite(last) /\ last.again
    /\ \A i \in Mems :
         /\ Len(mem[i].entries) >= 3
         /\ \E k \in 1..Len(mem[i].entries) : mem[i].entries[k].epoch = 0

\* C5: the epochs of the written entries strictly increase in the order of
\* their latest writes; in particular no two written entries share an epoch.
C5_EpochsFollowWriteOrder ==
    \A i \in Mems : \A j, k \in 1..Len(worder) :
        j < k => EntryOf(mem[i], worder[j]).epoch < EntryOf(mem[i], worder[k]).epoch

\* C6 as stated: a read returns an expression of the width asked for, and when
\* the entry of the address holds a value of another width the result is the
\* unsigned cast of that value to the width asked for.
C6_ReadCastsStoredValue ==
    IsRead(last) => \A i \in Mems :
        /\ data_type(last.res[i]) = last.dt
        /\ (HasEntry(mem[i], last.addr)
              /\ data_type(EntryOf(mem[i], last.addr).value) # last.dt
            => last.res[i] = cast(EntryOf(mem[i], last.addr).value, last.dt, FALSE))

\* C6, amended: a read returns an expression of the width asked for; under
\* PerfectMatches it is the stored value of the address, or the unsigned cast
\* of it to that width when it was stored with another width; under
\* ConditionalTrees the cast closes the whole tree: it is unsigned and wraps
\* an expression of another width.
C6_ReadHasRequestedWidth ==
    IsRead(last) => \A i \in Mems :
        LET r == last.res[i]
        IN /\ data_type(r) = last.dt
           /\ (r.tag = "Cast" => r.n = 0 /\ data_type(r.kids[1]) # last.dt)
           /\ (mem[i].strategy = "PerfectMatches" =>
                 /\ HasEntry(mem[i], last.addr)
                 /\ LET v == EntryOf(mem[i], last.addr).value
                    IN r = IF data_type(v) = last.dt THEN v ELSE cast(v, last.dt, FALSE))

\* C6 witness: a read of a width other than the one the address was written
\* with returned the unsigned cast of the written value.
C6_Witness ==
    /\ IsRead(last)
    /\ \A i \in Mems :
         /\ HasEntry(mem[i], last.addr)
         /\ EntryOf(mem[i], last.addr).epoch > 0
         /\ data_type(EntryOf(mem[i], last.addr).value) # last.dt
         /\ last.res[i] = cast(EntryOf(mem[i], last.addr).value, last.dt, FALSE)

\* The memory m with the default symbol of addr memoized.
Memoized(m, addr, dt) ==
    [m EXCEPT !.entries = Append(@, MemoryEntry(addr, SymE(dt, m.name, m.symbols), 0)),
              !.symbols = @ + 1]

\* Some entry's address equality with addr is simplified to TRUE by the solver.
FoldedMatch(m, addr) ==
    \E k \in 1..Len(m.entries) :
        /\ m.entries[k].addr # addr
        /\ check_equal_sat(m.solver, m.entries[k].addr, addr)
        /\ simplify_condition(m.solver, equal(m.entries[k].addr, addr)) = CondTRUE

\* What a read never touches: the entries there were, and the epoch counter.
ReadKeeps(m, m2) ==
    /\ m2.epoch = m.epoch
    /\ Len(m2.entries) >= Len(m.entries)
    /\ SubSeq(m2.entries, 1, Len(m.entries)) = m.entries

\* C7 as stated: a read keeps the entries and the epoch counter, changes
\* nothing when the address has an entry, and otherwise appends exactly the
\* zero-epoch entry of the fresh default symbol and counts the symbol.
C7_ReadFrameAsStated ==
    [][IsRead(last') => \A i \in Mems :
         /\ ReadKeeps(mem[i], mem'[i])
         /\ mem'[i] = IF HasEntry(mem[i], last'.addr) THEN mem[i]
                      ELSE Memoized(mem[i], last'.addr, last'.dt)]_vars

\* C7, amended: as stated, except that a ConditionalTrees read of an address
\* without an entry also changes nothing when the solver simplifies the
\* address equality of some entry to TRUE.
C7_ReadFrame ==
    [][IsRead(last') => \A i \in Mems :
         /\ ReadKeeps(mem[i], mem'[i])
         /\ mem'[i] = IF \/ HasEntry(mem[i], last'.addr)
                         \/ /\ mem[i].strategy = "ConditionalTrees"
                            /\ FoldedMatch(mem[i], last'.addr)
                      THEN mem[i]
                      ELSE Memoized(mem[i], last'.addr, last'.dt)]_vars

\* C7 witness: one read that memoized a default symbol in the memory of the
\* lazy solver and left the memory of the exact solver, which folded the
\* address onto a written entry, without an entry for the address.
C7_Witness ==
    /\ IsRead(last)
    /\ ~HasEntry(mem[1], last.addr)
    /\ Len(mem[1].entries) >= 1
    /\ HasEntry(mem[2], last.addr)
    /\ EntryOf(mem[2], last.addr).epoch = 0
    /\ mem[2].entries[Len(mem[2].entries)].addr = last.addr

\* C8: under PerfectMatches the two memories, which differ in their solver
\* alone, return the same expression for every read and hold the same entries
\* and counters.
C8_PerfectMatchesIgnoresSolver ==
    (\A i \in Mems : mem[i].strategy = "PerfectMatches") =>
        /\ mem[1].solver # mem[2].solver
        /\ [mem[1] EXCEPT !.solver = "any"] = [mem[2] EXCEPT !.solver = "any"]
        /\ last.res[1] = last.res[2]

\* C8 witness: a PerfectMatches read while both memories hold entries on whose
\* address equality with the address read the two solvers answer differently.
C8_Witness ==
    /\ \A i \in Mems : mem[i].strategy = "PerfectMatches"
    /\ IsRead(last)
    /\ \E k \in 1..Len(mem[1].entries) :
         LET c == equal(mem[1].entries[k].addr, last.addr)
         IN /\ mem[1].entries[k].addr # last.addr
            /\ simplify_condition(mem[1].solver, c) # simplify_condition(mem[2].solver, c)

----------------------------------------------------------------------------
(* Claims about MicroEncoder, checked under SpecEnc.                        *)

IsPrefix(s, t) == Len(s) <= Len(t) /\ SubSeq(t, 1, Len(s)) = s

\* C9: the temporary counter never decreases, whatever is encoded or finished.
C9_TempsNeverDecrease == [][temps' >= temps]_vars

\* C10: encode only appends: the operations buffered before the call are a
\* prefix of the operations buffered after it.
C10_EncodeOnlyAppends == [][elast'.call = "encode" => IsPrefix(ops, ops')]_vars

\* The indices of the temporaries that the operations of code define.
Defined(code) ==
    {code[k].dest.temp.idx : k \in {j \in 1..Len(code) :
        code[j].op \in {"Mov", "Const"} /\ code[j].dest.kind = "Temp"}}
    \cup {code[k].t.idx : k \in {j \in 1..Len(code) :
        code[j].op \in {"Add", "Sub", "Mul", "Set"}}}

\* C11: finish returns the buffer as it is, in order, empties it and keeps the
\* counter and the last comparison; the instruction encoded last before a
\* finish, encoded again right after it, numbers the temporaries it defines
\* from the value the counter had at the finish.
C11_FinishDrainsKeepsNumbering ==
    [][/\ elast'.call = "finish" =>
            /\ elast'.code = ops
            /\ ops' = <<>>
            /\ temps' = temps
            /\ last_comparison' = last_comparison
       /\ (elast.call = "finish" /\ elast'.call = "encode" /\ elast'.inst = elast.inst) =>
            \A i \in Defined(ops') : i >= temps]_vars

\* The comparison kind an instruction records, "None" when it records none.
Records(m) ==
    CASE m = "Add" -> "Add" [] m = "Sub" -> "Sub" [] m = "Imul" -> "Mul"
      [] m = "Cmp" -> "Sub" [] m = "Test" -> "And" [] OTHER -> "None"

\* The condition kind of a conditional mnemonic.
Consumes(m) ==
    CASE m = "Je" -> "Equal" [] m = "Jg" -> "Greater" [] m = "Setl" -> "Less"
      [] OTHER -> "None"

\* C12: an instruction that sets flags records its comparison kind over two
\* temporaries of one width that it loaded itself (Add, Sub, Imul: the inputs
\* of the operation it emitted); Je, Jg and Setl put the recorded comparison,
\* as it is, into the Jump or Set they emit and keep it; every other
\* instruction and finish keep the recorded comparison.
C12_LastComparisonCarried ==
    [][/\ (elast'.call = "encode" /\ Records(elast'.inst.mnemoic) # "None") =>
            /\ last_comparison'.kind = Records(elast'.inst.mnemoic)
            /\ last_comparison'.a.dt = last_comparison'.b.dt
            /\ {last_comparison'.a.idx, last_comparison'.b.idx} \subseteq temps..(temps' - 1)
            /\ elast'.inst.mnemoic \in {"Add", "Sub", "Imul"} =>
                  LET o == ops'[Len(ops') - 1]
                  IN /\ o.op = last_comparison'.kind
                     /\ o.a = last_comparison'.a
                     /\ o.b = last_comparison'.b
       /\ (elast'.call = "encode" /\ Consumes(elast'.inst.mnemoic) # "None"
             /\ elast'.result = "ok") =>
            /\ last_comparison' = last_comparison
            /\ \E k \in Len(ops) + 1..Len(ops') :
                  /\ ops'[k].op = IF elast'.inst.mnemoic = "Setl" THEN "Set" ELSE "Jump"
                  /\ ops'[k].condition =
                       Condition(Consumes(elast'.inst.mnemoic), last_comparison)
       /\ (elast'.call = "finish" \/ Records(elast'.inst.mnemoic) = "None") =>
            last_comparison' = last_comparison]_vars

\* C12 witness: a conditional jump was encoded with a comparison in it that an
\* instruction after the first one had recorded.
C12_Witness ==
    /\ elast.call = "encode" /\ elast.inst.mnemoic \in {"Je", "Jg"} /\ elast.result = "ok"
    /\ ops # <<>>
    /\ ops[Len(ops)].op = "Jump"
    /\ ops[Len(ops)].condition.cmp = last_comparison
    /\ last_comparison.kind \in {"Add", "Sub", "Mul", "And"}
    /\ last_comparison.a.idx > 0

\* The operations that the program has seen emitted: the buffer and the
\* Microcode last returned.
Emitted == {ops[k] : k \in 1..Len(ops)} \cup {elast.code[k] : k \in 1..Len(elast.code)}

\* C13: every Mov emitted moves between two locations of one width.
C13_MovWidthsMatch ==
    \A o \in Emitted : o.op = "Mov" => loc_data_type(o.dest) = loc_data_type(o.src)

\* C13 witness: the buffer holds the Mov of a cast temporary into a register
\* and a Mov through an address temporary.
C13_Witness ==
    /\ \E o \in Emitted : o.op = "Mov" /\ o.dest.kind = "Direct" /\ o.src.kind = "Temp"
    /\ \E o \in Emitted : o.op = "Mov" /\ "Indirect" \in {o.dest.kind, o.src.kind}
    /\ \E o \in Emitted : o.op = "Cast"

\* C14: every Jump emitted names a target temporary of width n64.
C14_JumpTargetsAreN64 ==
    \A o \in Emitted : o.op = "Jump" => o.t.dt = N64

\* C14 witness: a relative and an absolute Jump have been emitted.
C14_Witness ==
    /\ \E o \in Emitted : o.op = "Jump" /\ o.relative
    /\ \E o \in Emitted : o.op = "Jump" /\ ~o.relative

\* C15: every Add, Sub and Mul emitted has its target and both inputs of one
\* width.
C15_ArithmeticWidthsMatch ==
    \A o \in Emitted : o.op \in {"Add", "Sub", "Mul"} =>
        o.t.dt = o.a.dt /\ o.a.dt = o.b.dt

\* Whether the Mov arm clears the buffer: the widths of its operands differ.
MovClears(inst) ==
    inst.mnemoic = "Mov" /\ inst.operands[1].dt # inst.operands[2].dt

\* C16: what encode does depends on the instruction, the counter and the last
\* comparison alone: an encoder with the same counter and last comparison and
\* an empty buffer ends the same way with the same counter and last
\* comparison, and its buffer holds the operations that this encoder added
\* (all of its buffer, where the Mov arm cleared it).
C16_EncodeIsDeterministic ==
    [][elast'.call = "encode" =>
         \E r \in {encode([ops |-> <<>>, temps |-> temps,
                            last_comparison |-> last_comparison], elast'.inst)} :
            /\ r.st = elast'.result
            /\ r.e.temps = temps'
            /\ r.e.last_comparison = last_comparison'
            /\ ops' = IF MovClears(elast'.inst) THEN r.e.ops ELSE ops \o r.e.ops]_vars

\* C16 witness: an instruction was encoded onto a buffer that held operations
\* and added operations to it.
C16_Witness ==
    /\ elast.call = "encode" /\ elast.result = "ok"
    /\ Len(ops) >= 4
    /\ temps >= 3
    /\ ops[Len(ops)].op = "Jump"
    /\ ops[Len(ops)].condition.kind # "True"

\* C17: encode returns an error only for an encode_move between two widths
\* (the Lea arm: a destination that is not n64); a Mov between two widths
\* returns Ok and ends with the load of the source, its signed Cast to the
\* width of the destination and the Mov; a Movzx ends the same way with an
\* unsigned Cast.
C17_ErrorsAndCastedMoves ==
    [][elast'.call = "encode" =>
         /\ elast'.result = "err" =>
               /\ elast'.inst.mnemoic = "Lea"
               /\ elast'.inst.operands[1].dt # N64
         /\ (MovClears(elast'.inst) \/ elast'.inst.mnemoic = "Movzx") =>
               /\ elast'.result = "ok"
               /\ Len(ops') >= 3
               /\ LET n == Len(ops')
                      load == ops'[n - 2]
                      cst == ops'[n - 1]
                      mov == ops'[n]
                      new == elast'.inst.operands[1].dt
                  IN /\ load.op \in {"Mov", "Const"}
                     /\ load.dest = LTemp(cst.t)
                     /\ cst.op = "Cast"
                     /\ cst.new = new
                     /\ cst.signed = (elast'.inst.mnemoic = "Mov")
                     /\ mov.op = "Mov"
                     /\ mov.src = LTemp(Temporary(new, cst.t.idx))
                     /\ loc_data_type(mov.dest) = new]_vars

\* C17 witness: a Mov of a 32-bit immediate into 64-bit memory was encoded.
C17_Witness ==
    /\ elast.call = "encode" /\ elast.result = "ok"
    /\ MovClears(elast.inst)
    /\ elast.inst.operands[1].kind = "Indirect"
    /\ Len(ops) = 4

----------------------------------------------------------------------------
(* Claims about SymState::step, checked under SpecStep.                     *)

\* The call of step that led to the state, when this step is one.
Stepped == steps' # steps
Call == steps'[Len(steps')]
Returned == Stepped /\ Call.result = "ok"
\* The cell of the register file an operation writes or reads.
WritesCell(op, reg) == op.op = "Mov" /\ op.dest = RegCell(reg)
ReadsCell(op, reg) == op.op = "Mov" /\ op.src = RegCell(reg)

\* C18: after a step that returns, ip is the address stepped; the RIP register
\* reads as that address as a 64-bit constant unless the operation wrote the
\* RIP cell; an operation that reads RIP moves that address to its destination.
C18_StepSetsRipAndIp ==
    [][Returned =>
         /\ sym'.ip = Call.addr
         /\ ~WritesCell(Call.op, "RIP") =>
               get_reg(sym', "RIP").expr = IntExpr(N64, Call.addr)
         /\ (ReadsCell(Call.op, "RIP") /\ Call.op.dest.kind = "Temp") =>
               sym'.temporaries[Call.op.dest.temp.idx] = IntExpr(N64, Call.addr)
         /\ (ReadsCell(Call.op, "RIP") /\ Call.op.dest.kind = "Indirect") =>
               \E i \in 1 .. Len(sym'.memory[1].entries) :
                  /\ sym'.memory[1].entries[i].addr = sym.temporaries[Call.op.dest.temp.idx]
                  /\ sym'.memory[1].entries[i].value = IntExpr(N64, Call.addr)
                  /\ sym'.memory[1].entries[i].epoch = sym.memory[1].epoch]_vars

\* C18 witness: an operation read RIP into a temporary at an address that is
\* not the one of the step before it.
C18_Witness ==
    /\ Len(steps) >= 2
    /\ steps[Len(steps)].result = "ok"
    /\ ReadsCell(steps[Len(steps)].op, "RIP")
    /\ steps[Len(steps)].op.dest.kind = "Temp"
    /\ steps[Len(steps)].addr # steps[Len(steps) - 1].addr
    /\ sym.ip = steps[Len(steps)].addr

\* C19: a step that returns gives an event only for Jump and Syscall.  The
\* event of a Jump holds the value the target temporary had, the condition of
\* the operation as it is and its relative flag, and the step changes only
\* ip and the RIP cell.
C19_OnlyJumpAndSyscallGiveEvents ==
    [][Returned =>
         /\ (Call.event # NoEvent) = (Call.op.op \in {"Jump", "Syscall"})
         /\ Call.op.op = "Jump" =>
               /\ Call.event = EventJump(sym.temporaries[Call.op.t.idx],
                                         Call.op.condition, Call.op.relative)
               /\ sym'.temporaries = sym.temporaries
               /\ sym'.memory[1] = sym.memory[1]
               /\ sym'.memory[2] = write_direct(sym.memory[2], address("RIP"),
                                                from_ptr(Call.addr))
               /\ sym'.trace = sym.trace
               /\ sym'.symbol_map = sym.symbol_map
               /\ sym'.stdin_symbols = sym.stdin_symbols
               /\ sym'.stdout_symbols = sym.stdout_symbols]_vars

\* C19 witness: a Jump on a condition over a temporary that is there returned.
C19_Witness ==
    /\ steps # <<>>
    /\ steps[Len(steps)].result = "ok"
    /\ steps[Len(steps)].op.op = "Jump"
    /\ steps[Len(steps)].event.kind = "Jump"
    /\ steps[Len(steps)].event.relative
    /\ 0 \in DOMAIN sym.temporaries

\* The operations stepped so far are the first ones of the code.
StepsFollow(code) ==
    /\ Len(steps') <= Len(code)
    /\ \A i \in 1 .. Len(steps') : steps'[i].op = code[i]

\* C20: a Syscall stepped while RAX reads as the constant 60 returns the Exit
\* event.  The microcode of `mov eax, 0x3c; syscall` stepped in order from the
\* new state returns no event before its last operation, and Exit from it.
C20_ExitSyscall ==
    [][Stepped =>
         /\ ( /\ Call.op.op = "Syscall"
              /\ get_reg(sym, "RAX").expr.tag = "Int"
              /\ get_reg(sym, "RAX").expr.n = 60 ) =>
               /\ Call.result = "ok"
               /\ Call.event = EventExit
         /\ StepsFollow(ExitCode) =>
               /\ Call.result = "ok"
               /\ Call.event = IF Len(steps') = Len(ExitCode) THEN EventExit ELSE NoEvent]_vars

\* C20 witness: the whole microcode of `mov eax, 0x3c; syscall` was stepped.
C20_Witness ==
    /\ Len(steps) = Len(ExitCode)
    /\ \A i \in 1 .. Len(steps) : steps[i].op = ExitCode[i]
    /\ steps[Len(steps)].event = EventExit

----------------------------------------------------------------------------
(* Claims about SymState::track, checked under SpecTrack.                   *)

\* The number of calls of track with the mnemonic among the calls i .. j.
Tracked(mnemoic, i, j) ==
    Cardinality({k \in i .. j : tracked[k].mnemoic = mnemoic})

\* The i-th call of track is a Call that no later Ret matches: no stretch of
\* calls after it holds more Rets than Calls.
Unmatched(i) ==
    /\ tracked[i].mnemoic = "Call"
    /\ \A j \in i + 1 .. Len(tracked) :
          Tracked("Ret", i + 1, j) <= Tracked("Call", i + 1, j)

\* The addresses of the unmatched Calls from the i-th call of track on.
RECURSIVE CallSites(_)
CallSites(i) ==
    IF i > Len(tracked) THEN <<>>
    ELSE (IF Unmatched(i) THEN <<tracked[i].addr>> ELSE <<>>) \o CallSites(i + 1)

\* C21: the trace is the sequence of the addresses of the Calls tracked that
\* no later Ret matches, in the order of the calls; a Ret tracked on the empty
\* trace and every other mnemonic leave it as it is.
C21_TraceIsOpenCalls == sym.trace = CallSites(1)

\* C21 witness: a Ret on the empty trace, a Call and the Ret that matches it,
\* and a Call that is still open.
C21_Witness ==
    /\ Len(tracked) = 4
    /\ tracked[1].mnemoic = "Ret"
    /\ tracked[2].mnemoic = "Call"
    /\ tracked[3].mnemoic = "Ret"
    /\ tracked[4].mnemoic = "Call"
    /\ sym.trace = <<tracked[4].addr>>

----------------------------------------------------------------------------
(* Claims about the syscalls, checked under SpecSys.                        *)

\* This step is a call of step: track changes the trace, step never does.
SysStepped ==
    /\ steps' # <<>>
    /\ sym'.trace = sym.trace
    /\ steps' # steps \/ sym' # sym
SysReturned == SysStepped /\ Call.result = "ok"
\* A register as the state reads it.
Reads(s, reg) == get_reg(s, reg).expr
IsInt(e) == e.tag = "Int"
\* The symbols of a stream up to a count.
Issued(ns, count) == {SymE(N8, ns, k) : k \in 0 .. count - 1}
\* The entry of the symbol map for byte i of a syscall stepped at addr.
MapEntry(symbol, addr, trace, i) ==
    [symbol |-> symbol,
     location |-> [addr |-> addr, trace |-> trace,
                   storage |-> [data_type |-> N8, base |-> "RSI",
                                displacement |-> IF i > 0 THEN i ELSE -1]]]

\* C22: the symbols in the symbol map are those of the two counters, the k-th
\* of a stream with index k-1, each with one location.  A step that returns a
\* Stdio event of n symbols numbers them from the counter of its stream on,
\* advances that counter by n and leaves the other one; each symbol is mapped
\* to the ip of the step, the trace, and the n8 location at RSI displaced by
\* its position (no displacement for the first).  Other steps leave the
\* counters and the map.
C22_SymbolsAreFresh ==
    [][/\ {e.symbol : e \in sym'.symbol_map} =
             Issued("stdin", sym'.stdin_symbols) \cup Issued("stdout", sym'.stdout_symbols)
       /\ Cardinality(sym'.symbol_map) = sym'.stdin_symbols + sym'.stdout_symbols
       /\ (SysReturned /\ Call.event.kind = "Stdio") =>
             LET read == Call.event.stdio = "Stdin"
                 n == Len(Call.event.locs)
                 from == IF read THEN sym.stdin_symbols ELSE sym.stdout_symbols
             IN /\ read = (Reads(sym, "RAX").n = 0)
                /\ n = Reads(sym, "RDX").n
                /\ sym'.stdin_symbols = sym.stdin_symbols + (IF read THEN n ELSE 0)
                /\ sym'.stdout_symbols = sym.stdout_symbols + (IF read THEN 0 ELSE n)
                /\ \A i \in 1 .. n :
                      /\ Call.event.locs[i].symbol =
                            SymE(N8, IF read THEN "stdin" ELSE "stdout", from + i - 1)
                      /\ MapEntry(Call.event.locs[i].symbol, Call.addr, sym.trace, i - 1)
                            \in sym'.symbol_map
       /\ (SysReturned /\ Call.event.kind # "Stdio") =>
             /\ sym'.stdin_symbols = sym.stdin_symbols
             /\ sym'.stdout_symbols = sym.stdout_symbols
             /\ sym'.symbol_map = sym.symbol_map]_vars

\* C22 witness: after a read, a write of two bytes inside a call returned.
C22_Witness ==
    /\ steps # <<>>
    /\ steps[1].event.stdio = "Stdout"
    /\ Len(steps[1].event.locs) = 2
    /\ sym.stdin_symbols >= 1
    /\ sym.trace # <<>>
    /\ \E e \in sym.symbol_map :
          e.location.storage.displacement = 1 /\ e.location.trace # <<>>
    /\ \E e, f \in sym.symbol_map : e.location.addr # f.location.addr

\* C23: a Syscall stepped with RAX 0 or 1 and RDX the constant n returns one
\* Stdio event, Stdin for 0 and Stdout for 1, of n pairs, the i-th (from 0) the
\* i-th symbol issued with the n8 access at RSI + i.  For 0 main memory then
\* holds the i-th symbol at RSI + i and its entries at other addresses are as
\* before; for 1 main memory is as before.
C23_StdioEvent ==
    [][( /\ SysReturned
         /\ Call.op.op = "Syscall"
         /\ Reads(sym, "RAX").n \in {0, 1} ) =>
          LET read == Reads(sym, "RAX").n = 0
              n == Reads(sym, "RDX").n
              b == Reads(sym, "RSI")
              from == IF read THEN sym.stdin_symbols ELSE sym.stdout_symbols
              symbol(i) == SymE(N8, IF read THEN "stdin" ELSE "stdout", from + i)
              old == sym.memory[1].entries
              new == sym'.memory[1].entries
          IN /\ Call.event.kind = "Stdio"
             /\ Call.event.stdio = IF read THEN "Stdin" ELSE "Stdout"
             /\ Len(Call.event.locs) = n
             /\ \A i \in 0 .. n - 1 :
                   Call.event.locs[i + 1] =
                      [symbol |-> symbol(i),
                       access |-> [addr |-> AddExpr(b, from_ptr(i)), dt |-> N8]]
             /\ ~read => sym'.memory[1] = sym.memory[1]
             /\ read =>
                   /\ \A i \in 0 .. n - 1 : \E k \in 1 .. Len(new) :
                         /\ new[k].addr = AddExpr(b, from_ptr(i))
                         /\ new[k].value = symbol(i)
                   /\ \A k \in 1 .. Len(old) :
                         (\A i \in 0 .. n - 1 : old[k].addr # AddExpr(b, from_ptr(i)))
                            => \E j \in 1 .. Len(new) : new[j] = old[k]
                   /\ Len(new) <= Len(old) + n]_vars

\* C23 witness: a read of two bytes returned after an earlier read of one.
C23_Witness ==
    /\ steps # <<>>
    /\ steps[1].event.stdio = "Stdin"
    /\ Len(steps[1].event.locs) = 2
    /\ sym.stdin_symbols = 3
    /\ Len(sym.memory[1].entries) = 2

\* The Syscall stepped on the state is a fatal error.
Fatal(s) ==
    \/ ~IsInt(Reads(s, "RAX"))
    \/ Reads(s, "RAX").n \notin {0, 1, 60}
    \/ /\ Reads(s, "RAX").n \in {0, 1}
       /\ ~(IsInt(Reads(s, "RDX")) /\ data_type(Reads(s, "RDX")) = N64)

\* C24: a Syscall stepped panics, and gives no event, exactly when RAX reads
\* as no constant, or as a constant other than 0, 1 and 60, or as 0 or 1 while
\* RDX reads as no 64-bit constant; otherwise it returns an event.
C24_SyscallFatalCases ==
    [][(SysStepped /\ Call.op.op = "Syscall") =>
          /\ (Call.result = "panic") = Fatal(sym)
          /\ (Call.event = NoEvent) = Fatal(sym)]_vars

\* C24 witness: a Syscall with RAX a constant 0 or 1 panicked on RDX.
C24_Witness ==
    /\ steps # <<>>
    /\ steps[1].op.op = "Syscall"
    /\ steps[1].result = "panic"
    /\ IsInt(Reads(sym, "RAX"))
    /\ Reads(sym, "RAX").n \in {0, 1}
    /\ ~IsInt(Reads(sym, "RDX"))

----------------------------------------------------------------------------
(* Claims about the epochs of SymMemory, checked under SpecMem.             *)

\* This step is a write.
Wrote == IsWrite(last') /\ (last' # last \/ mem' # mem)
\* This step is a read.
DidRead == IsRead(last') /\ (last' # last \/ mem' # mem)

\* C25: the epoch counter of a new memory is 1; a write to an address that has
\* no entry adds one to it, a write to an address that has an entry leaves it;
\* the entry a write installs holds the value written and the counter as it
\* was before the write.
C25_EpochCounter ==
    /\ \A i \in Mems : mem[i].epoch = 1
    /\ [][Wrote => \A i \in Mems :
             /\ mem'[i].epoch = IF HasEntry(mem[i], last'.addr)
                                THEN mem[i].epoch ELSE mem[i].epoch + 1
             /\ HasEntry(mem'[i], last'.addr)
             /\ EntryOf(mem'[i], last'.addr).epoch = mem[i].epoch
             /\ EntryOf(mem'[i], last'.addr).value = last'.value]_vars

\* C25 witness: a write overwrote an entry after the counter had moved on, so
\* the entry holds the counter itself.
C25_Witness ==
    /\ IsWrite(last)
    /\ \A i \in Mems :
         /\ mem[i].epoch >= 3
         /\ EntryOf(mem[i], last.addr).epoch = mem[i].epoch
         /\ Len(mem[i].entries) >= 3

\* A default symbol of the memory.
IsDefaultSymbol(m, e) == e.tag = "Sym" /\ e.ns = m.name /\ e.n < m.symbols

\* C26: an entry has epoch 0 exactly when its value is a default symbol of the
\* memory; the entry a write installs has an epoch of at least 1, and after a
\* write to an address that held a memoized default symbol a read of the
\* address with the width of the value returns the value written.
C26_WritesShadowDefaults ==
    /\ [](\A i \in Mems : \A k \in 1 .. Len(mem[i].entries) :
            (mem[i].entries[k].epoch = 0) = IsDefaultSymbol(mem[i], mem[i].entries[k].value))
    /\ [][Wrote => \A i \in Mems :
             /\ EntryOf(mem'[i], last'.addr).epoch >= 1
             /\ ( /\ HasEntry(mem[i], last'.addr)
                  /\ EntryOf(mem[i], last'.addr).epoch = 0 ) =>
                   read_expr(mem'[i], last'.addr, data_type(last'.value)).expr
                      = last'.value]_vars

\* The expression under the cast that closes a read.
Uncast(e) == IF e.tag = "Cast" THEN e.kids[1] ELSE e

\* The conditions of an if-then-else tree, from the outermost branch inwards.
RECURSIVE Guards(_)
Guards(e) == IF e.tag = "Ite" THEN <<e.kids[1]>> \o Guards(e.kids[3]) ELSE <<>>

\* Whether and where a condition guards a branch.
Guarded(g, c) == \E k \in 1 .. Len(g) : g[k] = c
GuardAt(g, c) == CHOOSE k \in 1 .. Len(g) : g[k] = c

\* C27: in the tree a ConditionalTrees read returns, of two written entries
\* whose conditions guard a branch the one written later guards the outer
\* branch, and no entry written before the latest write to the address read
\* guards a branch.
C27_TreeFollowsRecency ==
    [][DidRead => \A i \in Mems :
         mem[i].strategy = "ConditionalTrees" =>
            LET g == Guards(Uncast(last'.res[i]))
                q == last'.addr
            IN \A j, k \in 1 .. Len(worder) :
                  j < k =>
                     /\ ( /\ Guarded(g, equal(worder[j], q))
                          /\ Guarded(g, equal(worder[k], q)) ) =>
                           GuardAt(g, equal(worder[k], q)) < GuardAt(g, equal(worder[j], q))
                     /\ worder[k] = q => ~Guarded(g, equal(worder[j], q))]_vars

----------------------------------------------------------------------------
(* Claims about push and pop, encoded and executed                          *)

\* An instruction was executed: its microcode is in elast', the calls of
\* step in steps'.
Executed(mnemoic) == tracked' # tracked /\ elast'.inst.mnemoic = mnemoic
\* The register operand of the instruction executed, as a location.
Operand1 == RegCell(elast'.inst.operands[1].reg)
\* The state when the first operation of the instruction has read RSP.
AtEntry == get_reg(sym, "RSP").s
\* The value of a cell of the main memory after the instruction.
CellAfter(addr, dt) == read_expr(sym'.memory[1], addr, dt).expr

\* C28: the microcode of Push(src) loads RSP into a temporary, loads the
\* n64 constant bytes(width(src)), subtracts it in place, stores src to the
\* main memory at the temporary, and writes the temporary back to RSP, in
\* this order; executed, RSP is its old value minus the byte count and the
\* cell at the new address holds the value src had before.
C28_PushOrderAndEffect ==
    [][Executed("Push") =>
          LET src == Operand1
              w == src.dt
              t == Temporary(N64, temps)
              o == Temporary(N64, temps + 1)
              old == Reads(sym, "RSP")
              new == SubExpr(old, IntExpr(N64, w \div 8))
          IN /\ elast'.result = "ok"
             /\ elast'.code =
                   <<OpMov(LTemp(t), RegCell("RSP")),
                     OpConst(LTemp(o), Integer(N64, w \div 8)),
                     OpBin("Sub", t, t, o),
                     OpMov(Indirect(w, 0, t), src),
                     OpMov(RegCell("RSP"), LTemp(t))>>
             /\ \A k \in 1 .. Len(steps') : steps'[k].result = "ok"
             /\ Reads(sym', "RSP") = new
             /\ CellAfter(new, w) =
                   read_location(AtEntry, src).expr]_vars

\* C29: the microcode of Pop(dest), dest = RSP included, loads RSP into a
\* temporary, loads dest from the main memory at the temporary, and only
\* then adds the byte count and writes the temporary back to RSP; executed,
\* dest holds the value the cell at the old RSP held and RSP is its old
\* value plus the byte count.
C29_PopLoadsBeforeIncrement ==
    [][Executed("Pop") =>
          LET dest == Operand1
              w == dest.dt
              t == Temporary(N64, temps)
              o == Temporary(N64, temps + 1)
              old == Reads(sym, "RSP")
              cell == read_expr(sym.memory[1], old, w).expr
          IN /\ elast'.result = "ok"
             /\ elast'.code =
                   <<OpMov(LTemp(t), RegCell("RSP")),
                     OpMov(dest, Indirect(w, 0, t)),
                     OpConst(LTemp(o), Integer(N64, w \div 8)),
                     OpBin("Add", t, t, o),
                     OpMov(RegCell("RSP"), LTemp(t))>>
             /\ \A k \in 1 .. Len(steps') : steps'[k].result = "ok"
             /\ read_location(sym', dest).expr = cell
             /\ Reads(sym', "RSP") = AddExpr(old, IntExpr(N64, w \div 8))]_vars

----------------------------------------------------------------------------
(* Claims about the temporaries of the executed microcode                   *)

\* The temporaries of the comparison a conditional operation embeds.
Compared(op) ==
    IF op.op \in {"Set", "Jump"} /\ op.condition.kind # "True"
    THEN {op.condition.cmp.a, op.condition.cmp.b}
    ELSE {}

\* C30: a temporary named in an emitted operation, the temporaries of the
\* comparison embedded in a conditional Jump or Set included, has the width
\* the most recent operation defining its index gave it, so that no step of
\* the concatenated microcode fails the width assertion of get_temp: the
\* temporaries the first operation of an instruction compares have the
\* width of the values the state holds for them, and no step panics.
C30_TemporariesKeepTheirWidth ==
    [][(tracked' # tracked /\ elast'.code # <<>>) =>
          /\ \A temp \in Compared(elast'.code[1]) :
                /\ temp.idx \in DOMAIN sym.temporaries
                /\ data_type(sym.temporaries[temp.idx]) = temp.dt
          /\ \A k \in 1 .. Len(steps') : steps'[k].result # "panic"]_vars

----------------------------------------------------------------------------
(* Claims about a failed encode                                             *)

\* C31: an encode that returns an error (a Lea whose destination has
\* another width than the address temporary) leaves the encoder as it was
\* before the call: the buffer, the counter and the last comparison are
\* unchanged, so that a later finish returns nothing of the failed
\* instruction.
C31_FailedEncodeLeavesNoTrace ==
    [][(elast'.call = "encode" /\ elast'.result = "err") =>
          /\ ops' = ops
          /\ temps' = temps
          /\ last_comparison' = last_comparison]_vars

----------------------------------------------------------------------------
(* Claims about the registers                                               *)

\* The family of a register: the 64-bit register that it is a part of on
\* the machine.
Family(reg) ==
    CASE reg \in {"AL", "AH", "AX", "EAX", "RAX"} -> "RAX"
      [] reg \in {"CL", "CH", "CX", "ECX", "RCX"} -> "RCX"
      [] reg \in {"DL", "DH", "DX", "EDX", "RDX"} -> "RDX"
      [] reg \in {"BL", "BH", "BX", "EBX", "RBX"} -> "RBX"
      [] reg \in {"SP", "ESP", "RSP"} -> "RSP"
      [] reg \in {"BP", "EBP", "RBP"} -> "RBP"
      [] reg \in {"SI", "ESI", "RSI"} -> "RSI"
      [] reg \in {"DI", "EDI", "RDI"} -> "RDI"
      [] reg \in {"IP", "EIP", "RIP"} -> "RIP"
      [] OTHER -> reg

\* C32: set_reg(r, v) changes what get_reg returns only for the registers
\* of the family of r: for every register q of another family (r = AH and
\* q = RSP, r = CH and q = RBP) get_reg(q) returns after the write what it
\* returned before.
C32_SetRegStaysInFamily ==
    [][\A r \in Regs : \A v \in RegValues(r) :
          sym' = set_reg(sym, r, v) =>
             \A q \in Regs :
                Family(q) # Family(r) => Reads(sym', q) = Reads(sym, q)]_vars

----------------------------------------------------------------------------
(* Claims about the two strategies                                          *)

\* C33: with concrete addresses only and a solver that refutes the equality
\* of two distinct constants, a ConditionalTrees and a PerfectMatches memory
\* driven by the same reads and writes return the same expression for every
\* read and hold the same entries, the same default-symbol counter and the
\* same epoch counter after every operation.
C33_StrategiesAgreeOnConcrete ==
    /\ mem[1].strategy = "ConditionalTrees" /\ mem[2].strategy = "PerfectMatches"
    /\ mem[1].entries = mem[2].entries
    /\ mem[1].symbols = mem[2].symbols
    /\ mem[1].epoch = mem[2].epoch
    /\ IsRead(last) => last.res[1] = last.res[2]

\* C33 happens: three addresses hold entries, written ones and a memoized
\* default among them, and the last operation read a written cell at
\* another width than it was written with.
C33_Witness ==
    /\ mem[1].strategy = "ConditionalTrees" /\ mem[2].strategy = "PerfectMatches"
    /\ Len(mem[1].entries) = 3
    /\ \E k \in 1 .. 3 : mem[1].entries[k].epoch = 0
    /\ \E k \in 1 .. 3 : mem[1].entries[k].epoch >= 2
    /\ IsRead(last)
    /\ last.res[1].tag = "Int"
    /\ last.res[1].dt = N8
    /\ \E k \in 1 .. 3 : /\ mem[1].entries[k].addr = last.addr
                          /\ mem[1].entries[k].value = IntExpr(N64, 7)

====
